---- MODULE Spec2Model ----
(***************************************************************************)
(* The icon-to-SVG pipeline of cp-react-icons: the pack-aware colorizer    *)
(* (applyPackSpecificColor), the SVG document assembler                    *)
(* (getSvgStringFromElement) and the IconItem component that drives them.  *)
(*                                                                         *)
(* Numbers are ECMAScript Numbers (IEEE-754 binary64, round to nearest,    *)
(* ties to even); Number::toString is the shortest round-trip decimal.     *)
(* A DOM element is a record [tag, attrs, kids]; attrs is a function from  *)
(* the attribute names present to their values.                            *)
(***************************************************************************)
EXTENDS Integers, Sequences, FiniteSets, TLC

(***************************************************************************)
(* Natural numbers of any size: little-endian sequences of 14-bit limbs,   *)
(* without leading zero limbs (<<>> is 0).  They carry the 53-bit          *)
(* significands and the exact intermediate results of binary64 arithmetic. *)
(***************************************************************************)
LimbBase == 2^14

Max2(a, b) == IF a >= b THEN a ELSE b
Min2(a, b) == IF a <= b THEN a ELSE b

RECURSIVE BigNorm(_)
BigNorm(a) ==
  IF a = <<>> THEN <<>>
  ELSE IF a[Len(a)] = 0 THEN BigNorm(SubSeq(a, 1, Len(a) - 1))
  ELSE a

RECURSIVE BigFromNat(_)
BigFromNat(n) == IF n = 0 THEN <<>> ELSE <<n % LimbBase>> \o BigFromNat(n \div LimbBase)

Limb(a, i) == IF i >= 1 /\ i <= Len(a) THEN a[i] ELSE 0

RECURSIVE BigAddFrom(_, _, _, _)
BigAddFrom(a, b, i, c) ==
  IF i > Len(a) /\ i > Len(b)
  THEN (IF c = 0 THEN <<>> ELSE <<c>>)
  ELSE LET s == Limb(a, i) + Limb(b, i) + c
       IN  <<s % LimbBase>> \o BigAddFrom(a, b, i + 1, s \div LimbBase)

BigAdd(a, b) == BigAddFrom(a, b, 1, 0)

RECURSIVE BigSubFrom(_, _, _, _)
BigSubFrom(a, b, i, borrow) ==
  IF i > Len(a) THEN <<>>
  ELSE LET d == Limb(a, i) - Limb(b, i) - borrow
       IN  IF d < 0
           THEN <<d + LimbBase>> \o BigSubFrom(a, b, i + 1, 1)
           ELSE <<d>> \o BigSubFrom(a, b, i + 1, 0)

\* a - b for a >= b
BigSub(a, b) == BigNorm(BigSubFrom(a, b, 1, 0))

RECURSIVE BigCmpFrom(_, _, _)
BigCmpFrom(a, b, i) ==
  IF i = 0 THEN 0
  ELSE IF a[i] < b[i] THEN -1
  ELSE IF a[i] > b[i] THEN 1
  ELSE BigCmpFrom(a, b, i - 1)

\* -1, 0 or 1 as a < b, a = b or a > b
BigCmp(a, b) ==
  IF Len(a) < Len(b) THEN -1
  ELSE IF Len(a) > Len(b) THEN 1
  ELSE BigCmpFrom(a, b, Len(a))

RECURSIVE BigMulSmallFrom(_, _, _, _)
BigMulSmallFrom(a, k, i, c) ==
  IF i > Len(a) THEN (IF c = 0 THEN <<>> ELSE <<c % LimbBase>> \o
                        (IF c \div LimbBase = 0 THEN <<>> ELSE <<c \div LimbBase>>))
  ELSE LET s == a[i] * k + c
       IN  <<s % LimbBase>> \o BigMulSmallFrom(a, k, i + 1, s \div LimbBase)

\* a * k for 0 <= k < 2^16
BigMulSmall(a, k) == BigNorm(BigMulSmallFrom(a, k, 1, 0))

ZeroLimbs(n) == [i \in 1..n |-> 0]

RECURSIVE ColumnSum(_, _, _, _)
\* the sum of a[i] * b[k + 1 - i] over i from lo to hi (at most 7 terms)
ColumnSum(a, b, k, i) ==
  IF i > Len(a) \/ i > k THEN 0
  ELSE (IF k + 1 - i <= Len(b) THEN a[i] * b[k + 1 - i] ELSE 0) + ColumnSum(a, b, k, i + 1)

RECURSIVE CarryFrom(_, _, _)
CarryFrom(cols, i, c) ==
  IF i > Len(cols) THEN (IF c = 0 THEN <<>> ELSE <<c % LimbBase, c \div LimbBase>>)
  ELSE LET s == cols[i] + c
       IN  <<s % LimbBase>> \o CarryFrom(cols, i + 1, s \div LimbBase)

\* a * b, the shorter of the two of at most 7 limbs
BigMul(a, b) ==
  IF a = <<>> \/ b = <<>> THEN <<>>
  ELSE BigNorm(CarryFrom([k \in 1..(Len(a) + Len(b) - 1) |-> ColumnSum(a, b, k, 1)], 1, 0))

RECURSIVE BigDivSmallFrom(_, _, _, _)
BigDivSmallFrom(a, k, i, r) ==
  IF i = 0 THEN [q |-> <<>>, r |-> r]
  ELSE LET cur == r * LimbBase + a[i]
           rest == BigDivSmallFrom(a, k, i - 1, cur % k)
       IN  [q |-> rest.q \o <<cur \div k>>, r |-> rest.r]

\* quotient and remainder of a by k, 0 < k < 2^16
BigDivSmall(a, k) ==
  LET d == BigDivSmallFrom(a, k, Len(a), 0)
  IN  [q |-> BigNorm(d.q), r |-> d.r]

\* a * 2^n
BigShl(a, n) ==
  IF a = <<>> THEN <<>>
  ELSE ZeroLimbs(n \div 14) \o BigMulSmall(a, 2^(n % 14))

\* floor(a / 2^n)
BigShr(a, n) ==
  IF n \div 14 >= Len(a) THEN <<>>
  ELSE BigDivSmall(SubSeq(a, (n \div 14) + 1, Len(a)), 2^(n % 14)).q

RECURSIVE SmallBitLen(_)
SmallBitLen(n) == IF n = 0 THEN 0 ELSE 1 + SmallBitLen(n \div 2)

BigBitLen(a) == IF a = <<>> THEN 0 ELSE 14 * (Len(a) - 1) + SmallBitLen(a[Len(a)])

BigIsOdd(a) == a # <<>> /\ a[1] % 2 = 1

RECURSIVE BigPow10From(_)
BigPow10From(j) == IF j = 0 THEN <<1>> ELSE BigMulSmall(BigPow10From(j - 1), 10)

Pow10Table == [j \in 0..24 |-> BigPow10From(j)]

\* 10^j for 0 <= j <= 24
BigPow10(j) == Pow10Table[j]

RECURSIVE QuotientLimb(_, _, _, _)
\* the largest d in lo..hi with b * d <= rem
QuotientLimb(rem, b, lo, hi) ==
  IF lo = hi THEN lo
  ELSE LET mid == (lo + hi + 1) \div 2
       IN  IF BigCmp(BigMulSmall(b, mid), rem) <= 0
           THEN QuotientLimb(rem, b, mid, hi)
           ELSE QuotientLimb(rem, b, lo, mid - 1)

RECURSIVE BigDivModFrom(_, _, _, _)
BigDivModFrom(a, b, i, r) ==
  IF i = 0 THEN [q |-> <<>>, r |-> r]
  ELSE LET cur  == BigNorm(<<a[i]>> \o r)
           d    == QuotientLimb(cur, b, 0, LimbBase - 1)
           rest == BigDivModFrom(a, b, i - 1, BigSub(cur, BigMulSmall(b, d)))
       IN  [q |-> rest.q \o <<d>>, r |-> rest.r]

\* quotient and remainder of a by b, b # 0 (long division, a limb at a time)
BigDivMod(a, b) ==
  LET d == BigDivModFrom(a, b, Len(a), <<>>)
  IN  [q |-> BigNorm(d.q), r |-> d.r]

RECURSIVE BigDigits(_)
\* the decimal digits of a > 0, most significant first
BigDigits(a) ==
  IF a = <<>> THEN <<>>
  ELSE LET d == BigDivSmall(a, 10) IN BigDigits(d.q) \o <<d.r>>

RECURSIVE BigFromDigits(_)
BigFromDigits(ds) ==
  IF ds = <<>> THEN <<>>
  ELSE BigAdd(BigMulSmall(BigFromDigits(SubSeq(ds, 1, Len(ds) - 1)), 10),
              BigFromNat(ds[Len(ds)]))

(***************************************************************************)
(* ECMAScript Numbers.  A finite non-zero Number is [neg, m, e] of value   *)
(* (-1)^neg * m * 2^e with 2^52 <= m < 2^53; zero is FZero.  The values    *)
(* that occur stay far from the subnormal and overflow ranges, and NaN     *)
(* and the infinities are not produced by the inputs drawn here.           *)
(***************************************************************************)
FZero == [neg |-> FALSE, m |-> <<>>, e |-> 0]

\* [neg, q, E], after a carry out of the 53 bits of q
Renormalized(neg, q, E) ==
  IF BigBitLen(q) = 54
  THEN [neg |-> neg, m |-> BigShr(q, 1), e |-> E + 1]
  ELSE [neg |-> neg, m |-> q, e |-> E]

\* q rounded by what was cut off below it: c is -1, 0, 1 as that is less
\* than, equal to or more than half a unit of q
RoundedByRemainder(neg, q, c, E, sticky) ==
  Renormalized(neg, IF c > 0 \/ (c = 0 /\ (sticky \/ BigIsOdd(q))) THEN BigAdd(q, <<1>>) ELSE q, E)

\* M cut to its leading 53 bits q, n bits below them
RoundedAt(neg, M, q, n, E, sticky) ==
  RoundedByRemainder(neg, q, BigCmp(BigSub(M, BigShl(q, n)), BigShl(<<1>>, n - 1)), E + n, sticky)

\* The Number nearest to (M + eps) * 2^E, ties to even; 0 < eps < 1 iff sticky
\* (sticky is used only with M of more than 54 bits).
RoundToNumber(neg, M, E, sticky) ==
  IF M = <<>> THEN FZero
  ELSE IF BigBitLen(M) <= 53
  THEN [neg |-> neg, m |-> BigShl(M, 53 - BigBitLen(M)), e |-> E - (53 - BigBitLen(M))]
  ELSE RoundedAt(neg, M, BigShr(M, BigBitLen(M) - 53), BigBitLen(M) - 53, E, sticky)

FromInt(n) == RoundToNumber(n < 0, BigFromNat(IF n < 0 THEN -n ELSE n), 0, FALSE)

FNeg(a) == IF a = FZero THEN FZero ELSE [a EXCEPT !.neg = ~a.neg]

\* a * b
FMul(a, b) ==
  IF a = FZero \/ b = FZero THEN FZero
  ELSE RoundToNumber(a.neg # b.neg, BigMul(a.m, b.m), a.e + b.e, FALSE)

\* (-1)^aneg * A * 2^e0 + (-1)^bneg * B * 2^e0
AlignedSum(aneg, A, bneg, B, e0) ==
  IF aneg = bneg THEN RoundToNumber(aneg, BigAdd(A, B), e0, FALSE)
  ELSE IF BigCmp(A, B) = 0 THEN FZero
  ELSE RoundToNumber(IF BigCmp(A, B) > 0 THEN aneg ELSE bneg,
                     IF BigCmp(A, B) > 0 THEN BigSub(A, B) ELSE BigSub(B, A), e0, FALSE)

\* a + b
FAdd(a, b) ==
  IF a = FZero THEN b
  ELSE IF b = FZero THEN a
  ELSE AlignedSum(a.neg, BigShl(a.m, a.e - Min2(a.e, b.e)),
                  b.neg, BigShl(b.m, b.e - Min2(a.e, b.e)), Min2(a.e, b.e))

\* a - b
FSub(a, b) == FAdd(a, FNeg(b))

\* a / b, b # 0.  A divisor k * 2^x with k < 2^14 (such as 100) is divided
\* by k a limb at a time; any other one by long division.
FDiv(a, b) ==
  IF a = FZero THEN FZero
  ELSE IF b.m[1] = 0 /\ b.m[2] = 0 /\ b.m[3] = 0
  THEN LET d == BigDivSmall(BigShl(a.m, 56), b.m[4])
       IN  RoundToNumber(a.neg # b.neg, d.q, a.e - 56 - b.e - 42, d.r # 0)
  ELSE LET d == BigDivMod(BigShl(a.m, 56), b.m)
       IN  RoundToNumber(a.neg # b.neg, d.q, a.e - 56 - b.e, d.r # <<>>)

\* -1, 0, 1 as a < b, a = b, a > b
FCmp(a, b) ==
  LET mag(u, v) == IF u.e # v.e THEN (IF u.e < v.e THEN -1 ELSE 1) ELSE BigCmp(u.m, v.m)
  IN  IF a = b THEN 0
      ELSE IF a = FZero THEN (IF b.neg THEN 1 ELSE -1)
      ELSE IF b = FZero THEN (IF a.neg THEN -1 ELSE 1)
      ELSE IF a.neg /\ ~b.neg THEN -1
      ELSE IF ~a.neg /\ b.neg THEN 1
      ELSE IF a.neg THEN mag(b, a) ELSE mag(a, b)

\* Math.min
FMin(a, b) == IF FCmp(a, b) <= 0 THEN a ELSE b

(***************************************************************************)
(* Decimal numerals.  A numeral [neg, digits, n] is the text of the value  *)
(* 0.d1...dk * 10^n (the k, n and s of Number::toString); "0" is           *)
(* [digits |-> <<0>>, n |-> 1].                                            *)
(***************************************************************************)
Numeral(neg, digits, n) == [neg |-> neg, digits |-> digits, n |-> n]

RECURSIVE DivPow10(_, _, _)
\* floor(a / 10^j) and whether anything was cut off
DivPow10(a, j, sticky) ==
  IF j = 0 \/ a = <<>> THEN [q |-> a, sticky |-> sticky]
  ELSE LET d == BigDivSmall(a, 10)
       IN  IF d.r # 0 THEN DivPow10(d.q, j - 1, TRUE) ELSE DivPow10(d.q, j - 1, sticky)

\* Number(text): StringToNumber of a decimal numeral, correctly rounded
StringToNumber(t) ==
  LET D  == BigFromDigits(t.digits)
      x  == t.n - Len(t.digits)
      sh == 60 + 4 * (-x)
      d  == DivPow10(BigShl(D, sh), -x, FALSE)
  IN  IF D = <<>> THEN FZero
      ELSE IF x >= 0 THEN RoundToNumber(t.neg, BigMul(D, BigPow10(x)), 0, FALSE)
      ELSE RoundToNumber(t.neg, d.q, -sh, d.sticky)

\* |a| >= 10^p
GePow10(a, p) ==
  BigCmp(BigMul(BigShl(a.m, Max2(a.e, 0)), BigPow10(Max2(-p, 0))),
         BigShl(BigPow10(Max2(p, 0)), Max2(-a.e, 0))) >= 0

RECURSIVE DecimalExponentFrom(_, _)
DecimalExponentFrom(a, n) == IF ~GePow10(a, n) THEN n ELSE DecimalExponentFrom(a, n + 1)

\* the n with 10^(n-1) <= |a| < 10^n
DecimalExponent(a) == DecimalExponentFrom(a, (((a.e + 52) * 30103) \div 100000) - 1)

\* |V - Dv| when V lies within half a unit of Dv (ties count iff even); else
\* -1.  Hup is half the unit above Dv; below a power of two it is Hup / 2.
WithinHalfUnit(V, Dv, Hup, power, even) ==
  LET above == BigCmp(V, Dv) >= 0
      diff  == IF above THEN BigSub(V, Dv) ELSE BigSub(Dv, V)
      c     == BigCmp(BigMulSmall(diff, IF above \/ ~power THEN 1 ELSE 2), Hup)
  IN  IF c < 0 \/ (c = 0 /\ even) THEN diff ELSE <<-1>>

\* Does the decimal s * 10^(-j) round to the Number a (a # 0, sign apart)?
\* If so, its distance to |a| in units of 2^(-t) * 10^(-max(j,0)); else -1.
DecimalDistance(s, j, a) ==
  WithinHalfUnit(BigShl(BigMul(s, BigPow10(Max2(-j, 0))), Max2(-a.e, 0) + 2),
                 BigMul(BigShl(a.m, a.e + Max2(-a.e, 0) + 2), BigPow10(Max2(j, 0))),
                 BigShl(BigPow10(Max2(j, 0)), a.e + Max2(-a.e, 0) + 1),
                 a.m = BigShl(<<1>>, 52), ~BigIsOdd(a.m))

\* DecimalDistance for a k-digit s, -1 for an s of another length
DistanceOfLength(s, k, j, a) ==
  IF BigCmp(s, BigPow10(k - 1)) >= 0 /\ BigCmp(s, BigPow10(k)) < 0
  THEN DecimalDistance(s, j, a) ELSE <<-1>>

\* the digits of the nearer one of lo and lo + 1, at distances dlo and dhi
NearerDigits(lo, dlo, dhi) ==
  IF dlo # <<-1>> /\ dhi # <<-1>>
  THEN (IF BigCmp(dlo, dhi) < 0 \/ (BigCmp(dlo, dhi) = 0 /\ ~BigIsOdd(lo))
        THEN BigDigits(lo) ELSE BigDigits(BigAdd(lo, <<1>>)))
  ELSE IF dlo # <<-1>> THEN BigDigits(lo)
  ELSE IF dhi # <<-1>> THEN BigDigits(BigAdd(lo, <<1>>))
  ELSE <<>>

\* lo is floor(|a| * 10^j)
DigitsNear(a, lo, k, j) ==
  NearerDigits(lo, DistanceOfLength(lo, k, j, a), DistanceOfLength(BigAdd(lo, <<1>>), k, j, a))

\* The digits of the k-digit s for which s * 10^(n-k) rounds to a (of two
\* such s the one nearer to a), or <<>> when there is none
DigitsOfLength(a, n, k) ==
  DigitsNear(a,
    IF k - n >= 0
    THEN (IF a.e >= 0 THEN BigMul(BigShl(a.m, a.e), BigPow10(k - n))
          ELSE BigShr(BigMul(a.m, BigPow10(k - n)), -a.e))
    ELSE DivPow10(IF a.e >= 0 THEN BigShl(a.m, a.e) ELSE BigShr(a.m, -a.e), n - k, FALSE).q,
    k, k - n)

RECURSIVE ShortestDigitsBetween(_, _, _, _)
\* The shortest digit string that round-trips, of a length in lo..hi.  If a
\* k-digit decimal rounds to a, so does a longer one, and 17 digits always do.
ShortestDigitsBetween(a, n, lo, hi) ==
  IF lo = hi THEN DigitsOfLength(a, n, lo)
  ELSE LET mid == (lo + hi) \div 2
       IN  IF DigitsOfLength(a, n, mid) # <<>>
           THEN ShortestDigitsBetween(a, n, lo, mid)
           ELSE ShortestDigitsBetween(a, n, mid + 1, hi)

ShortestDigits(a, n) == ShortestDigitsBetween(a, n, 1, 17)

\* Number::toString(a) as a numeral
NumberToString(a) ==
  IF a = FZero THEN Numeral(FALSE, <<0>>, 1)
  ELSE LET n == DecimalExponent(a)
       IN  Numeral(a.neg, ShortestDigits(a, n), n)

DigitChar == <<"0", "1", "2", "3", "4", "5", "6", "7", "8", "9">>

RECURSIVE DigitsText(_)
DigitsText(ds) == IF ds = <<>> THEN "" ELSE DigitChar[ds[1] + 1] \o DigitsText(Tail(ds))

RECURSIVE ZerosText(_)
ZerosText(n) == IF n <= 0 THEN "" ELSE "0" \o ZerosText(n - 1)

RECURSIVE NatText(_)
NatText(n) == IF n < 10 THEN DigitChar[n + 1] ELSE NatText(n \div 10) \o DigitChar[(n % 10) + 1]

\* The characters of a numeral, laid out as Number::toString lays them out
NumeralText(t) ==
  LET k == Len(t.digits)
      body ==
        IF t.digits = <<0>> THEN "0"
        ELSE IF k <= t.n /\ t.n <= 21 THEN DigitsText(t.digits) \o ZerosText(t.n - k)
        ELSE IF 0 < t.n /\ t.n <= 21
        THEN DigitsText(SubSeq(t.digits, 1, t.n)) \o "." \o DigitsText(SubSeq(t.digits, t.n + 1, k))
        ELSE IF -6 < t.n /\ t.n <= 0
        THEN "0." \o ZerosText(-t.n) \o DigitsText(t.digits)
        ELSE DigitsText(SubSeq(t.digits, 1, 1))
             \o (IF k > 1 THEN "." \o DigitsText(SubSeq(t.digits, 2, k)) ELSE "")
             \o "e" \o (IF t.n - 1 < 0 THEN "-" \o NatText(1 - t.n) ELSE "+" \o NatText(t.n - 1))
  IN  (IF t.neg THEN "-" ELSE "") \o body


(***************************************************************************)
(* DOM elements.  [tag, attrs, kids, origin]: attrs maps the names of the  *)
(* attributes present to their values, kids is the sequence of child       *)
(* elements, and origin is the node's identity class: "icon" for a node of *)
(* the rendered icon, and "defs", "clipPath", "clipRect", "clipGroup",     *)
(* "background", "guard" for the nodes the assembler creates.  A viewBox   *)
(* value is the sequence of its whitespace-separated numerals; a style     *)
(* value is the sequence of its declarations [prop, value].                *)
(***************************************************************************)
NoAttrs == [n \in {} |-> ""]

Element(tag, attrs, kids, origin) ==
  [tag |-> tag, attrs |-> attrs, kids |-> kids, origin |-> origin]

hasAttribute(el, name) == name \in DOMAIN el.attrs

setAttribute(el, name, value) ==
  [el EXCEPT !.attrs = [n \in (DOMAIN el.attrs) \cup {name} |->
                          IF n = name THEN value ELSE el.attrs[n]]]

removeAttribute(el, name) ==
  [el EXCEPT !.attrs = [n \in (DOMAIN el.attrs) \ {name} |-> el.attrs[n]]]

ShapeTags == {"path", "circle", "rect", "ellipse", "line", "polyline", "polygon"}

NoPack == "undefined"

\* One declaration of an inline style after the three replace() calls:
\* /color\s*:\s*[^;]+;?/gi, then stroke, then fill.  A property that merely
\* ends in "color" (background-color) loses its tail and leaves its head.
CleanedDeclaration(d) ==
  IF d.prop \in {"color", "stroke", "fill"} THEN <<>>
  ELSE IF d.prop = "background-color" THEN <<[prop |-> "background-", value |-> ""]>>
  ELSE <<d>>

RECURSIVE CleanedStyle(_)
CleanedStyle(style) ==
  IF style = <<>> THEN <<>>
  ELSE CleanedDeclaration(style[1]) \o CleanedStyle(Tail(style))

\* "Remove any style attributes that might contain color overrides"
StripStyleColors(el) ==
  IF hasAttribute(el, "style") /\ el.attrs["style"] # <<>>
  THEN LET cleanedStyle == CleanedStyle(el.attrs["style"])
       IN  IF cleanedStyle # <<>>
           THEN setAttribute(el, "style", cleanedStyle)
           ELSE removeAttribute(el, "style")
  ELSE el

\* as ApplyFeather, but keeping the stroke-width the shape has
ApplyFeatherKeepingWidth(el, color) ==
  IF el.tag \in ShapeTags
  THEN LET e1 == setAttribute(setAttribute(el, "stroke", color), "fill", "none")
       IN  IF hasAttribute(el, "stroke-width") THEN e1 ELSE setAttribute(e1, "stroke-width", "2")
  ELSE el

\* case 'feather' of applyPackSpecificColor
ApplyFeather(el, color) ==
  IF el.tag \in ShapeTags
  THEN setAttribute(setAttribute(setAttribute(el, "stroke", color), "fill", "none"),
                    "stroke-width", "2")
  ELSE el

\* as ApplyPhosphor, but setting stroke to none whether it is present or not
ApplyPhosphorStrokeNone(el, color) ==
  setAttribute(setAttribute(el, "fill", color), "stroke", "none")

\* case 'phosphor' of applyPackSpecificColor
ApplyPhosphor(el, color) ==
  LET e1 == setAttribute(el, "fill", color)
  IN  IF hasAttribute(el, "stroke") THEN setAttribute(e1, "stroke", "none") ELSE e1

\* as ApplyFallback, but rewriting only a stroke or fill of currentColor
ApplyFallbackToCurrentColor(el, color) ==
  LET strokeSet == hasAttribute(el, "stroke") /\ el.attrs["stroke"] = "currentColor"
      fillSet   == hasAttribute(el, "fill") /\ el.attrs["fill"] = "currentColor"
      e1 == IF strokeSet THEN setAttribute(el, "stroke", color) ELSE el
  IN  IF fillSet THEN setAttribute(e1, "fill", color) ELSE e1

\* as ApplyFallback, but rewriting a stroke or fill of none as well
ApplyFallbackToNone(el, color) ==
  LET e1 == IF hasAttribute(el, "stroke") THEN setAttribute(el, "stroke", color) ELSE el
  IN  IF hasAttribute(el, "fill") THEN setAttribute(e1, "fill", color) ELSE e1

\* default case of applyPackSpecificColor
ApplyFallback(el, color) ==
  LET strokeSet == hasAttribute(el, "stroke") /\ el.attrs["stroke"] # "none"
      fillSet   == hasAttribute(el, "fill") /\ el.attrs["fill"] # "none"
      e1 == IF strokeSet THEN setAttribute(el, "stroke", color) ELSE el
  IN  IF fillSet THEN setAttribute(e1, "fill", color) ELSE e1

\* "For groups, remove any stroke/fill attributes"
StripGroupPaint(el) ==
  IF el.tag = "g"
  THEN removeAttribute(removeAttribute(removeAttribute(el, "stroke"), "fill"), "stroke-width")
  ELSE el

\* applyPackSpecificColor(element, color, packId): the element's own attributes
applyPackSpecificColor(el, color, packId) ==
  IF el.tag \notin ShapeTags /\ el.tag # "g" THEN el
  ELSE LET e1 == StripGroupPaint(el)
           e2 == IF packId = "feather" THEN ApplyFeather(e1, color)
                 ELSE IF packId = "phosphor" THEN ApplyPhosphor(e1, color)
                 ELSE ApplyFallback(e1, color)
       IN  StripStyleColors(e2)

RECURSIVE applyColor(_, _, _)
\* const applyColor = (element) => { applyPackSpecificColor(...); children.forEach(applyColor) }
applyColor(el, color, packId) ==
  LET e1 == applyPackSpecificColor(el, color, packId)
  IN  [e1 EXCEPT !.kids = [i \in 1..Len(el.kids) |-> applyColor(el.kids[i], color, packId)]]

\* Remove stroke, fill and stroke-width from the svg element itself
StripRootPaint(svg) ==
  removeAttribute(removeAttribute(removeAttribute(svg, "stroke"), "fill"), "stroke-width")

\* applyPackSpecificColorToSvg(svgElement, color, packId), on the live DOM
applyPackSpecificColorToSvg(svg, color, packId) ==
  LET s1 == StripRootPaint(svg)
  IN  [s1 EXCEPT !.kids = [i \in 1..Len(svg.kids) |-> applyColor(svg.kids[i], color, packId)]]

(***************************************************************************)
(* DOM tree access.  A node below a root is named by its path, the         *)
(* sequence of child indices that leads to it; <<>> is null.               *)
(***************************************************************************)
Matches(el, selector) ==
  IF selector = "svg" THEN el.tag = "svg"
  ELSE IF selector = "defs" THEN el.tag = "defs"
  ELSE \* 'rect[fill]:not([opacity="0.001"])'
       /\ el.tag = "rect"
       /\ hasAttribute(el, "fill")
       /\ ~(hasAttribute(el, "opacity") /\ el.attrs["opacity"] = "0.001")

RECURSIVE FirstMatch(_, _, _)
FirstMatch(kids, i, selector) ==
  IF i > Len(kids) THEN <<>>
  ELSE IF Matches(kids[i], selector) THEN <<i>>
  ELSE LET below == FirstMatch(kids[i].kids, 1, selector)
       IN  IF below # <<>> THEN <<i>> \o below
           ELSE FirstMatch(kids, i + 1, selector)

\* element.querySelector(selector): the first descendant in document order
querySelector(el, selector) == FirstMatch(el.kids, 1, selector)

RECURSIVE NodeAt(_, _)
NodeAt(el, path) == IF path = <<>> THEN el ELSE NodeAt(el.kids[path[1]], Tail(path))

\* node.nextSibling, for the node at a non-null path
nextSibling(root, path) ==
  LET parent == NodeAt(root, SubSeq(path, 1, Len(path) - 1))
      i      == path[Len(path)] + 1
  IN  IF i <= Len(parent.kids) THEN SubSeq(path, 1, Len(path) - 1) \o <<i>> ELSE <<>>

\* root.firstChild
firstChild(root) == IF Len(root.kids) >= 1 THEN <<1>> ELSE <<>>

\* root.insertBefore(node, ref): appends for a null ref, and throws NotFoundError
\* when ref is not a child of root
insertBefore(root, node, ref) ==
  IF ref = <<>>
  THEN [threw |-> FALSE, node |-> [root EXCEPT !.kids = @ \o <<node>>]]
  ELSE IF Len(ref) = 1
  THEN [threw |-> FALSE,
        node |-> [root EXCEPT !.kids = SubSeq(@, 1, ref[1] - 1) \o <<node>>
                                        \o SubSeq(@, ref[1], Len(@))]]
  ELSE [threw |-> TRUE, node |-> root]

RECURSIVE DocumentOrderOfKids(_, _)
RECURSIVE DocumentOrder(_)
\* The elements in the order outerHTML writes their opening tags
DocumentOrder(el) == <<el>> \o DocumentOrderOfKids(el.kids, 1)
DocumentOrderOfKids(kids, i) ==
  IF i > Len(kids) THEN <<>>
  ELSE DocumentOrder(kids[i]) \o DocumentOrderOfKids(kids, i + 1)

RECURSIVE SelectKids(_, _, _)
\* the children of the given kind, in order
SelectKids(kids, i, content) ==
  IF i > Len(kids) THEN <<>>
  ELSE (IF (kids[i].origin = "icon" /\ kids[i].tag # "defs") = content
        THEN <<kids[i]>> ELSE <<>>) \o SelectKids(kids, i + 1, content)

(***************************************************************************)
(* The numbers the component is run with: viewBox attributes of icons, the *)
(* paddings the padding control can be set to (and two it cannot), and     *)
(* corner radii in percent.                                                *)
(***************************************************************************)
Hundredths(k) ==
  IF k < 0 THEN FNeg(FDiv(FromInt(-k), FromInt(100))) ELSE FDiv(FromInt(k), FromInt(100))

Num(k) == Numeral(FALSE, BigDigits(BigFromNat(k)), Len(BigDigits(BigFromNat(k))))

ViewBox24 == <<Numeral(FALSE, <<0>>, 1), Numeral(FALSE, <<0>>, 1), Num(24), Num(24)>>

ViewBoxes ==
  { ViewBox24,
    <<Numeral(FALSE, <<0>>, 1), Numeral(FALSE, <<0>>, 1), Num(256), Num(256)>>,
    <<Numeral(FALSE, <<0>>, 1), Numeral(FALSE, <<0>>, 1), Num(32), Num(20)>>,
    <<Numeral(TRUE, <<1, 5>>, 1), Numeral(FALSE, <<2, 5>>, 0), Num(20), Numeral(FALSE, <<1, 7, 5>>, 2)>>,
    <<Numeral(FALSE, <<0>>, 1), Numeral(FALSE, <<0>>, 1), Num(24)>> }

Paddings == { Hundredths(k) : k \in {-10, 0, 5, 10, 20, 40, 50, 60} }

CornerRadii == { FromInt(r) : r \in {0, 25, 50} }

(***************************************************************************)
(* getSvgStringFromElement, step by step in the order of the source.       *)
(***************************************************************************)
DefaultViewBox == <<Numeral(FALSE, <<0>>, 1), Numeral(FALSE, <<0>>, 1),
                    Numeral(FALSE, <<2, 4>>, 2), Numeral(FALSE, <<2, 4>>, 2)>>

\* Set size attributes; remove colour attributes from the svg element itself
PrepareRoot(svg, size) ==
  LET s1 == setAttribute(setAttribute(svg, "width", NatText(size)), "height", NatText(size))
      s2 == StripRootPaint(removeAttribute(s1, "color"))
  IN  StripStyleColors(s2)

\* "Get or set default viewBox": the attribute's numerals
ViewBoxOf(svg) ==
  IF hasAttribute(svg, "viewBox") /\ svg.attrs["viewBox"] # <<>>
  THEN svg.attrs["viewBox"] ELSE DefaultViewBox

WithViewBox(svg) ==
  IF hasAttribute(svg, "viewBox") /\ svg.attrs["viewBox"] # <<>>
  THEN svg ELSE setAttribute(svg, "viewBox", DefaultViewBox)

\* viewBox.split(/\s+/).map(Number), with the default for a wrong count
ViewBoxValues(viewBox) ==
  IF Len(viewBox) # 4
  THEN [x |-> FZero, y |-> FZero, width |-> FromInt(24), height |-> FromInt(24)]
  ELSE [x |-> StringToNumber(viewBox[1]), y |-> StringToNumber(viewBox[2]),
        width |-> StringToNumber(viewBox[3]), height |-> StringToNumber(viewBox[4])]

\* as PaddingApplies, but with padding >= 0
PaddingAppliesFromZero(padding) ==
  FCmp(padding, FZero) >= 0 /\ FCmp(padding, StringToNumber(Numeral(FALSE, <<5>>, 0))) <= 0

\* as PaddingApplies, but without the upper limit
PaddingAppliesAbove(padding) == FCmp(padding, FZero) > 0

\* padding > 0 && padding <= 0.5
PaddingApplies(padding) ==
  FCmp(padding, FZero) > 0 /\ FCmp(padding, StringToNumber(Numeral(FALSE, <<5>>, 0))) <= 0

\* as PaddingAmount, but with the width in place of the shorter side
PaddingAmountOfWidth(box, padding) == FMul(box.width, padding)

\* Math.min(width, height) * padding
PaddingAmount(box, padding) == FMul(FMin(box.width, box.height), padding)

\* "Apply padding if specified"
ExpandedViewBox(box, padding) ==
  IF PaddingApplies(padding)
  THEN LET paddingAmount == PaddingAmount(box, padding)
       IN  [x      |-> FSub(box.x, paddingAmount),
            y      |-> FSub(box.y, paddingAmount),
            width  |-> FAdd(box.width, FMul(paddingAmount, FromInt(2))),
            height |-> FAdd(box.height, FMul(paddingAmount, FromInt(2)))]
  ELSE box

\* as RadiusInViewBox, but with the width in place of the shorter side
RadiusOfWidth(box, cornerRadius) == FDiv(FMul(box.width, cornerRadius), FromInt(100))

\* (Math.min(width, height) * cornerRadius) / 100
RadiusInViewBox(box, cornerRadius) ==
  FDiv(FMul(FMin(box.width, box.height), cornerRadius), FromInt(100))

\* as StrokeBuffer, but with the buffer for every pack
StrokeBufferForAll(packId) == FromInt(1)

StrokeBuffer(packId) == IF packId = "feather" THEN FromInt(1) ELSE FZero

\* Number::toString, tabulated once for the numbers the assembler formats
\* when run with the numbers above
ExpandedViewBoxes ==
  { ExpandedViewBox(ViewBoxValues(v), p) : v \in ViewBoxes \cup {<<>>}, p \in Paddings }

FormattedNumbers ==
  UNION { {box.x, box.y, box.width, box.height,
           FSub(box.x, FromInt(1)), FSub(box.y, FromInt(1)),
           FAdd(box.width, FromInt(2)), FAdd(box.height, FromInt(2))}
          \cup { RadiusInViewBox(box, r) : r \in CornerRadii } : box \in ExpandedViewBoxes }

NumberStrings == [a \in FormattedNumbers |-> NumberToString(a)]

Tabulated(table, a) == IF a \in DOMAIN table THEN table[a] ELSE NumberToString(a)

TemplateValue(a) == Tabulated(NumberStrings, a)

\* `${a}`: the text of a Number
NumberText(a) == NumeralText(TemplateValue(a))

\* Number(text), tabulated once for the numerals of the viewBox attributes
\* above and of the numbers the assembler formats
ParsedNumerals ==
  [t \in { NumberStrings[a] : a \in FormattedNumbers }
          \cup UNION { { v[i] : i \in DOMAIN v } : v \in ViewBoxes } |-> StringToNumber(t)]

NumberOf(t) == IF t \in DOMAIN ParsedNumerals THEN ParsedNumerals[t] ELSE StringToNumber(t)

\* `${x} ${y} ${width} ${height}`
ViewBoxTemplate(box) ==
  [i \in 1..4 |-> TemplateValue(<<box.x, box.y, box.width, box.height>>[i])]

\* the geometry attributes of a rectangle, with stroke none and stroke-width 0
RectAttrs(x, y, width, height, radius) ==
  LET value == [n \in {"x", "y", "width", "height", "rx", "ry"} |->
                  CASE n = "x"      -> x
                    [] n = "y"      -> y
                    [] n = "width"  -> width
                    [] n = "height" -> height
                    [] OTHER        -> radius]
  IN  [n \in {"x", "y", "width", "height", "rx", "ry", "stroke", "stroke-width"} |->
         CASE n = "stroke"       -> "none"
           [] n = "stroke-width" -> "0"
           [] OTHER              -> NumberText(value[n])]

\* the <defs><clipPath><rect/></clipPath></defs> of the rounded corners
ClipDefs(box, radius, packId) ==
  LET strokeBuffer == StrokeBuffer(packId)
      clipRect == Element("rect",
        RectAttrs(FSub(box.x, strokeBuffer), FSub(box.y, strokeBuffer),
                  FAdd(box.width, FMul(strokeBuffer, FromInt(2))),
                  FAdd(box.height, FMul(strokeBuffer, FromInt(2))), radius),
        <<>>, "clipRect")
      clipPath == Element("clipPath",
        [n \in {"id", "clipPathUnits"} |->
           IF n = "id" THEN "rounded-corner-clip" ELSE "userSpaceOnUse"],
        <<clipRect>>, "clipPath")
  IN  Element("defs", NoAttrs, <<clipPath>>, "defs")

\* a rectangle over the expanded box: the background, or the invisible border
BoxRect(box, radius, extra, origin) ==
  Element("rect", extra @@ RectAttrs(box.x, box.y, box.width, box.height, radius), <<>>, origin)

\* as ColorContent, but colouring the <defs> among the children as well
ColorContentWithDefs(svg, iconColor, packId) ==
  [svg EXCEPT !.kids = [i \in 1..Len(svg.kids) |-> applyColor(svg.kids[i], iconColor, packId)]]

\* "Apply color to original icon content": every child that is not a defs
ColorContent(svg, iconColor, packId) ==
  [svg EXCEPT !.kids = [i \in 1..Len(svg.kids) |->
     IF svg.kids[i].tag # "defs" THEN applyColor(svg.kids[i], iconColor, packId)
     ELSE svg.kids[i]]]

\* where the background rectangle goes: "Insert after defs (if exists)"
BackgroundRef(svg) ==
  LET defs == querySelector(svg, "defs")
  IN  IF defs # <<>> /\ nextSibling(svg, defs) # <<>> THEN nextSibling(svg, defs)
      ELSE IF defs # <<>> THEN (IF Len(svg.kids) >= 2 THEN <<2>> ELSE <<>>)
      ELSE firstChild(svg)

\* where the invisible border rectangle goes: "Insert after background (if exists)"
BorderRef(svg) ==
  LET defs   == querySelector(svg, "defs")
      bgRect == querySelector(svg, "rect[fill]:not([opacity=\"0.001\"])")
  IN  IF bgRect # <<>> /\ nextSibling(svg, bgRect) # <<>> THEN nextSibling(svg, bgRect)
      ELSE IF defs # <<>> /\ nextSibling(svg, defs) # <<>> THEN nextSibling(svg, defs)
      ELSE IF defs # <<>> THEN (IF Len(svg.kids) >= 2 THEN <<2>> ELSE <<>>)
      ELSE firstChild(svg)

\* as MoveIntoClipGroup, but moving every child that is not a defs
MoveAllIntoClipGroup(svg) ==
  LET iconGroup == Element("g", [n \in {"clip-path"} |-> "url(#rounded-corner-clip)"],
                           SelectSeq(svg.kids, LAMBDA el : el.tag # "defs"), "clipGroup")
  IN  [svg EXCEPT !.kids = SelectSeq(svg.kids, LAMBDA el : el.tag = "defs") \o <<iconGroup>>]

\* "Now add icon content - either in a clipped group or directly"
MoveIntoClipGroup(svg) ==
  LET iconGroup == Element("g", [n \in {"clip-path"} |-> "url(#rounded-corner-clip)"],
                           SelectKids(svg.kids, 1, TRUE), "clipGroup")
  IN  [svg EXCEPT !.kids = SelectKids(svg.kids, 1, FALSE) \o <<iconGroup>>]

\* The result of a call: null, a thrown DOMException, or the document whose
\* outerHTML is returned
Returned(kind, doc) == [kind |-> kind, doc |-> doc]
NoDocument == Element("none", NoAttrs, <<>>, "none")

\* "Add clip path for rounded corners if needed"
AddClipPath(svg, box, radius, cornerRadius, packId) ==
  IF FCmp(cornerRadius, FZero) > 0
  THEN insertBefore(svg, ClipDefs(box, radius, packId), firstChild(svg)).node
  ELSE svg

\* "Add background rectangle if not transparent"
AddBackground(svg, box, radius, bgColor) ==
  IF bgColor # "transparent"
  THEN insertBefore(svg, BoxRect(box, radius, [n \in {"fill"} |-> bgColor], "background"),
                    BackgroundRef(svg))
  ELSE [threw |-> FALSE, node |-> svg]

\* "Add invisible border rectangle to prevent viewBox cropping"
AddBorder(bg, box, radius, padding) ==
  IF bg.threw \/ ~PaddingApplies(padding) THEN bg
  ELSE insertBefore(bg.node,
                    BoxRect(box, radius,
                            [n \in {"fill", "opacity"} |-> IF n = "fill" THEN "#ffffff" ELSE "0.001"],
                            "guard"),
                    BorderRef(bg.node))

\* the icon content moved into the clipped group, and the serialized document
Serialized(border, cornerRadius) ==
  IF border.threw THEN Returned("threw", NoDocument)
  ELSE Returned("string", IF FCmp(cornerRadius, FZero) > 0
                          THEN MoveIntoClipGroup(border.node) ELSE border.node)

\* from the clip path on, for the svg with its viewBox set to box
Decorated(svg, box, radius, iconColor, bgColor, padding, cornerRadius, packId) ==
  Serialized(
    AddBorder(
      AddBackground(
        ColorContent(AddClipPath(svg, box, radius, cornerRadius, packId), iconColor, packId),
        box, radius, bgColor),
      box, radius, padding),
    cornerRadius)

\* "Apply padding if specified", for the cloned svg and its expanded viewBox
Padded(clonedSvg, expandedViewBox, iconColor, bgColor, padding, cornerRadius, packId) ==
  Decorated(IF PaddingApplies(padding)
            THEN setAttribute(clonedSvg, "viewBox", ViewBoxTemplate(expandedViewBox))
            ELSE WithViewBox(clonedSvg),
            expandedViewBox, RadiusInViewBox(expandedViewBox, cornerRadius),
            iconColor, bgColor, padding, cornerRadius, packId)

\* from "Get or set default viewBox" on, for the cloned svg
Assembled(clonedSvg, iconColor, bgColor, padding, cornerRadius, packId) ==
  Padded(clonedSvg, ExpandedViewBox(ViewBoxValues(ViewBoxOf(clonedSvg)), padding),
         iconColor, bgColor, padding, cornerRadius, packId)

getSvgStringFromElement(iconElement, iconColor, bgColor, size, padding, cornerRadius, packId) ==
  IF iconElement = NoDocument
     \/ (querySelector(iconElement, "svg") = <<>> /\ iconElement.tag # "svg")
  THEN Returned("null", NoDocument)
  ELSE Assembled(PrepareRoot(NodeAt(iconElement, querySelector(iconElement, "svg")), size),
                 iconColor, bgColor, padding, cornerRadius, packId)

(***************************************************************************)
(* The colour utilities.  A colour is the text '#rrggbb'; the channels of  *)
(* a text are read back among the colours the model draws.                 *)
(***************************************************************************)
FAbs(a) == IF a = FZero THEN FZero ELSE [a EXCEPT !.neg = FALSE]

\* Math.max
FMax(a, b) == IF FCmp(a, b) >= 0 THEN a ELSE b

\* The arithmetic of the colour utilities, as functions of Numbers: the
\* utilities below are handed it as ar
Number == [neg : BOOLEAN, m : Seq(Nat), e : Int]

Arithmetic ==
  [plus    |-> [a, b \in Number |-> FAdd(a, b)],
   minus   |-> [a, b \in Number |-> FSub(a, b)],
   times   |-> [a, b \in Number |-> FMul(a, b)],
   over    |-> [a, b \in Number |-> FDiv(a, b)],
   abs     |-> [a \in Number |-> FAbs(a)],
   max     |-> [a, b \in Number |-> FMax(a, b)],
   min     |-> [a, b \in Number |-> FMin(a, b)],
   compare |-> [a, b \in Number |-> FCmp(a, b)],
   whole   |-> [k \in Int |-> FromInt(k)]]

RECURSIVE Remainder(_, _, _)
\* a % d of JavaScript, d > 0: the sign of a, the magnitude below d
Remainder(ar, a, d) ==
  IF a # FZero /\ a.neg THEN FNeg(Remainder(ar, FNeg(a), d))
  ELSE IF ar.compare[a, d] < 0 THEN a
  ELSE Remainder(ar, ar.minus[a, d], d)

RECURSIVE RoundBetween(_, _, _, _)
\* the n of lo..hi with n - 1/2 <= a < n + 1/2, if there is one
RoundBetween(ar, a, lo, hi) ==
  IF lo = hi THEN lo
  ELSE IF ar.compare[a, ar.over[ar.whole[2 * ((lo + hi + 1) \div 2) - 1], ar.whole[2]]] >= 0
  THEN RoundBetween(ar, a, (lo + hi + 1) \div 2, hi)
  ELSE RoundBetween(ar, a, lo, ((lo + hi + 1) \div 2) - 1)

\* Math.round of a Number of magnitude at most 360: halves go up
Round(ar, a) == RoundBetween(ar, a, -361, 361)

HexChar == <<"0", "1", "2", "3", "4", "5", "6", "7", "8", "9", "a", "b", "c", "d", "e", "f">>

\* x.toString(16), with '0' before a single digit
toHex(x) == HexChar[(x \div 16) + 1] \o HexChar[(x % 16) + 1]

\* '#' + [r, g, b].map(...).join('')
HexText(rgb) == "#" \o toHex(rgb[1]) \o toHex(rgb[2]) \o toHex(rgb[3])

\* parseInt(..., 16) / 255
Unit(ar, c) == ar.over[ar.whole[c], ar.whole[255]]

\* let h of hexToHsl, before Math.round(h * 60)
Sextant(ar, r, g, b, max, diff) ==
  IF diff = FZero THEN FZero
  ELSE IF max = r THEN Remainder(ar, ar.over[ar.minus[g, b], diff], ar.whole[6])
  ELSE IF max = g THEN ar.plus[ar.over[ar.minus[b, r], diff], ar.whole[2]]
  ELSE ar.plus[ar.over[ar.minus[r, g], diff], ar.whole[4]]

\* 1 - Math.abs(2 * l - 1)
Spread(ar, l) == ar.minus[ar.whole[1], ar.abs[ar.minus[ar.times[ar.whole[2], l], ar.whole[1]]]]

\* const s of hexToHsl
Saturation(ar, diff, l) == IF diff = FZero THEN FZero ELSE ar.over[diff, Spread(ar, l)]

\* if (h < 0) h += 360
Hue(h) == IF h < 0 THEN h + 360 ELSE h

\* what hexToHsl returns
HslWith(ar, sextant, diff, l) ==
  [h |-> Hue(Round(ar, ar.times[sextant, ar.whole[60]])),
   s |-> Round(ar, ar.times[Saturation(ar, diff, l), ar.whole[100]]),
   l |-> Round(ar, ar.times[l, ar.whole[100]])]

\* hexToHsl from const max and const min on
HslBetween(ar, r, g, b, max, min) ==
  HslWith(ar, Sextant(ar, r, g, b, max, ar.minus[max, min]), ar.minus[max, min],
          ar.over[ar.plus[max, min], ar.whole[2]])

\* hexToHsl from const r, g and b on
HslOfUnits(ar, r, g, b) ==
  HslBetween(ar, r, g, b, ar.max[ar.max[r, g], b], ar.min[ar.min[r, g], b])

\* hexToHsl of the colour with the channels rgb
RgbToHsl(ar, rgb) == HslOfUnits(ar, Unit(ar, rgb[1]), Unit(ar, rgb[2]), Unit(ar, rgb[3]))

\* r, g, b of hslToHex before m is added
Chroma(h, c, x) ==
  IF 0 <= h /\ h < 60 THEN <<c, x, FZero>>
  ELSE IF 60 <= h /\ h < 120 THEN <<x, c, FZero>>
  ELSE IF 120 <= h /\ h < 180 THEN <<FZero, c, x>>
  ELSE IF 180 <= h /\ h < 240 THEN <<FZero, x, c>>
  ELSE IF 240 <= h /\ h < 300 THEN <<x, FZero, c>>
  ELSE IF 300 <= h /\ h < 360 THEN <<c, FZero, x>>
  ELSE <<FZero, FZero, FZero>>

\* const x of hslToHex
Second(ar, h, c) ==
  ar.times[c, ar.minus[ar.whole[1],
                       ar.abs[ar.minus[Remainder(ar, ar.over[ar.whole[h], ar.whole[60]],
                                                 ar.whole[2]),
                                       ar.whole[1]]]]]

\* Math.round((r + m) * 255) for r, g and b
Shifted(ar, rgb, m) == [i \in 1..3 |-> Round(ar, ar.times[ar.plus[rgb[i], m], ar.whole[255]])]

\* hslToHex from const c on, up to the channels
WithChroma(ar, h, l, c) ==
  Shifted(ar, Chroma(h, c, Second(ar, h, c)), ar.minus[l, ar.over[c, ar.whole[2]]])

\* hslToHex from s /= 100 and l /= 100 on
HslToRgbOf(ar, h, s, l) == WithChroma(ar, h, l, ar.times[Spread(ar, l), s])

\* hslToHex, up to the channels
HslToRgb(ar, h, s, l) ==
  HslToRgbOf(ar, h, ar.over[ar.whole[s], ar.whole[100]], ar.over[ar.whole[l], ar.whole[100]])

hslToHex(h, s, l) == HexText(HslToRgb(Arithmetic, h, s, l))

\* let newLightness of generateComplementaryColor, before it is clamped
NewLightness(l) == IF l > 85 THEN l - 45 ELSE IF l > 40 THEN l - 40 ELSE l + 30

\* the colours of the colour picker the model draws, by their channels
Picked == { <<255, 0, 0>>, <<0, 0, 255>>, <<17, 34, 51>>, <<100, 116, 139>> }

\* the colours the state of the browser can hold: those, and the one
\* generateComplementaryColor makes of '#112233'
Swatches == Picked \cup { <<55, 110, 164>> }

\* parseInt(hex.substring(..), 16) of the three channels
Channels(hex) == CHOOSE rgb \in Swatches : HexText(rgb) = hex

hexToHsl(hex) == RgbToHsl(Arithmetic, Channels(hex))

\* generateComplementaryColor from const hsl on
ComplementOf(hsl) ==
  hslToHex(hsl.h, IF hsl.s < 30 THEN Min2(100, hsl.s + 20) ELSE hsl.s,
           Max2(10, Min2(90, NewLightness(hsl.l))))

generateComplementaryColor(backgroundHex) == ComplementOf(hexToHsl(backgroundHex))

\* lightenColor, from const hsl on
Lighter(hsl, amount) == hslToHex(hsl.h, hsl.s, Min2(90, hsl.l + amount))

lightenColor(hex, amount) == Lighter(hexToHsl(hex), amount)

\* lightenColor(fg, 20), computed once for the colours the browser can hold
LightenedForDarkMode == [hex \in { HexText(rgb) : rgb \in Swatches } |-> lightenColor(hex, 20)]

adjustColorsForDarkMode(bg, fg) ==
  IF bg = "transparent" THEN [bg |-> "transparent", fg |-> LightenedForDarkMode[fg]]
  ELSE [bg |-> fg, fg |-> bg]

(***************************************************************************)
(* The IconItem component: the icon it renders, the DOM below iconRef, its *)
(* props and state, and the result of the last click's call of             *)
(* getSvgStringFromElement.                                                *)
(***************************************************************************)
VARIABLES
  source,               \* the icon as the icon component renders it (never changes)
  live,                 \* the DOM below iconRef.current
  packId,               \* prop packId, NoPack when undefined
  iconColor,            \* prop iconColor
  backgroundColor,      \* prop backgroundColor
  copySize,             \* prop copySize
  currentPadding,       \* state currentPadding (a Number)
  currentCornerRadius,  \* state currentCornerRadius (a Number)
  applied,              \* the last two colours the display effect applied to live
  result,               \* what the last click's getSvgStringFromElement returned
  currentFormat,        \* state currentFormat: "text" or "png"
  navigator,            \* navigator.clipboard and window.isSecureContext
  pc,                   \* where the copy of the last click is waiting
  preparedSvg,          \* const preparedSvg of copySvgToClipboard
  attempts,             \* the clipboard writes of the last click, in order
  raster,               \* what the rasterization of the last click has done
  copy,                 \* the promise of the last click's copy function
  calls,                \* createObjectURL, revokeObjectURL, resolve and reject calls of copySvgAsPng
  toasts,               \* the toasts the last click has shown
  style,                \* containerRef.current.style.backgroundColor
  timeouts,             \* the originalBg of each pending setTimeout callback, oldest first
  img,                  \* the svg behind img.src and the size of the canvas of copySvgAsPng
  other,                \* a second tile of the grid, NoTile where the tile is looked at alone
  browser,              \* the state of IconBrowser, NoBrowser where the tile is looked at alone
  localStorage          \* the settings IconBrowser keeps in localStorage

vars == <<source, live, packId, iconColor, backgroundColor, copySize,
          currentPadding, currentCornerRadius, applied, result,
          currentFormat, navigator, pc, preparedSvg, attempts, raster, copy,
          calls, toasts, style, timeouts, img, other, browser, localStorage>>

MaxNodes == 2

\* at most so many setTimeout callbacks are pending at a time
MaxTimeouts == 2

IconColors == {"#ff0000", "#0000ff"}
BackgroundColors == {"transparent", "#112233"}
PackIds == {"feather", "phosphor", NoPack}

Attr(name, value) == [n \in {name} |-> value]

\* the attributes react-icons puts on the svg element of a stroke-drawn icon
RootAttrs(viewBox) ==
  [n \in {"stroke", "fill", "stroke-width", "viewBox", "style"} |->
     CASE n = "stroke"       -> "currentColor"
       [] n = "fill"         -> "none"
       [] n = "stroke-width" -> "2"
       [] n = "viewBox"      -> viewBox
       [] OTHER              -> <<[prop |-> "color", value |-> "#333333"]>>]

Icon(rootAttrs, kids) ==
  Element("div", NoAttrs, <<Element("svg", rootAttrs, kids, "icon")>>, "container")

RECURSIVE NodeCount(_)
RECURSIVE NodeCountOfKids(_, _)
NodeCount(el) == 1 + NodeCountOfKids(el.kids, 1)
NodeCountOfKids(kids, i) ==
  IF i > Len(kids) THEN 0 ELSE NodeCount(kids[i]) + NodeCountOfKids(kids, i + 1)

\* Icon content: leaves and containers, up to n elements in all
TreeLeaves ==
  { Element("path", NoAttrs, <<>>, "icon"),
    Element("rect", NoAttrs, <<>>, "icon"),
    Element("rect", Attr("fill", "#123456"), <<>>, "icon") }

ContainerTags == {"g", "defs"}

RECURSIVE Forests(_)
RECURSIVE Trees(_)
Trees(n) ==
  IF n <= 0 THEN {}
  ELSE TreeLeaves \cup { Element(c, NoAttrs, f, "icon") : c \in ContainerTags, f \in Forests(n - 1) }
Forests(n) ==
  IF n <= 0 THEN {<<>>}
  ELSE {<<>>} \cup UNION { { <<t>> \o f : f \in Forests(n - NodeCount(t)) } : t \in Trees(n) }

\* Icons that differ in the shape of their content
TreeIcons == { Icon(RootAttrs(ViewBox24), f) : f \in Forests(MaxNodes) }

\* Icons that differ in their viewBox
GeometryIcons ==
  { Icon(RootAttrs(v), <<Element("path", NoAttrs, <<>>, "icon")>>) : v \in ViewBoxes }
  \cup { Icon(Attr("fill", "currentColor"), <<Element("path", NoAttrs, <<>>, "icon")>>) }

\* Icons that differ in the paint attributes and inline style of their elements
PaintValues == {"none", "currentColor"}
Styles ==
  { <<[prop |-> "stroke", value |-> "#00ff00"]>>,
    <<[prop |-> "stroke-width", value |-> "1"], [prop |-> "background-color", value |-> "red"]>> }

OptionalAttr(name, values) == {NoAttrs} \cup { Attr(name, v) : v \in values }

PaintAttrs ==
  { a @@ b @@ c @@ d : a \in OptionalAttr("stroke", PaintValues),
                       b \in OptionalAttr("fill", PaintValues),
                       c \in OptionalAttr("stroke-width", {"0"}),
                       d \in OptionalAttr("style", Styles) }

PaintedIcons ==
  { Icon(RootAttrs(ViewBox24),
         <<Element("g", a, <<Element(t, a, <<>>, "icon")>>, "icon")>>) :
      a \in PaintAttrs, t \in {"path", "g", "title"} }

\* Icons whose content lies one level down: a group of two elements, the
\* first a shape, a rect or the icon's own <defs>
NestedIcons ==
  { Icon(RootAttrs(ViewBox24),
         <<Element("g", NoAttrs, <<first, Element("path", NoAttrs, <<>>, "icon")>>, "icon")>>) :
      first \in TreeLeaves \cup {Element("defs", NoAttrs, <<>>, "icon")} }

\* What IconItem renders while it has no IconComponent: a div, and no svg
Placeholder == Element("div", NoAttrs, <<Element("div", NoAttrs, <<>>, "icon")>>, "container")

NoResult == Returned("none", NoDocument)

RECURSIVE ReplaceAt(_, _, _)
ReplaceAt(el, path, node) ==
  IF path = <<>> THEN node
  ELSE [el EXCEPT !.kids[path[1]] = ReplaceAt(@, Tail(path), node)]

(***************************************************************************)
(* lib/clipboard.ts.  A text is a prolog of XML declarations followed by   *)
(* the document's root element; an error message is the sequence of its    *)
(* parts.                                                                  *)
(***************************************************************************)
XmlDeclaration == "<?xml version=\"1.0\" encoding=\"UTF-8\"?>"
SvgNamespace == "http://www.w3.org/2000/svg"

\* clonedSvg.outerHTML
outerHTML(doc) == [prolog |-> <<>>, svg |-> doc]

NoText == outerHTML(NoDocument)

\* the attribute names that begin with "xmlns:"
PrefixDeclarations == {"xmlns:xlink"}

\* svg.includes(needle), for the needles 'xmlns=' and 'xmlns:'
includes(svg, needle) ==
  \E i \in DOMAIN DocumentOrder(svg.svg) :
    IF needle = "xmlns=" THEN hasAttribute(DocumentOrder(svg.svg)[i], "xmlns")
    ELSE \E n \in PrefixDeclarations : hasAttribute(DocumentOrder(svg.svg)[i], n)

\* "Add XML declaration if missing"
WithDeclaration(svg) ==
  IF svg.prolog # <<>> /\ svg.prolog[1] = XmlDeclaration THEN svg
  ELSE [svg EXCEPT !.prolog = <<XmlDeclaration>> \o @]

\* "Ensure SVG has proper namespace if missing": the first <svg ...> tag of
\* the text gets xmlns appended
WithNamespace(svg) ==
  IF ~includes(svg, "xmlns=") /\ ~includes(svg, "xmlns:") /\ svg.svg.tag = "svg"
  THEN [svg EXCEPT !.svg = setAttribute(@, "xmlns", SvgNamespace)]
  ELSE svg

prepareSvgForClipboard(svg) == WithNamespace(WithDeclaration(svg))

\* What the environment makes of a write, and the text of its DOMException
WriteOutcomes == {"ok", "unsupported", "denied"}
WriteTextOutcomes == {"ok", "denied"}
PngWriteOutcomes == {"ok", "denied"}
ExecCommandOutcomes == {"true", "false", "throws"}
DomException(outcome) ==
  IF outcome = "denied" THEN "NotAllowedError: Write permission denied."
  ELSE "NotAllowedError: Type image/svg+xml not supported on write."

Attempt(api, type, outcome) == [api |-> api, type |-> type, outcome |-> outcome]

\* the promise an async function returned
Promise(state, error) == [state |-> state, error |-> error]
NotCalled == Promise("none", <<>>)
Pending == Promise("pending", <<>>)
Resolved == Promise("resolved", <<>>)
Rejected(error) == Promise("rejected", error)

\* the state a copy function leaves behind at its first suspension or return
Copying(at, prepared, written, rasterized, promise) ==
  [pc |-> at, preparedSvg |-> prepared, attempts |-> written, raster |-> rasterized,
   copy |-> promise]

NotCopying == Copying("idle", NoText, <<>>, <<>>, NotCalled)

\* navigator.clipboard && navigator.clipboard.write && window.isSecureContext
CanWriteItems == navigator.clipboard = "write" /\ navigator.isSecureContext

\* navigator.clipboard && window.isSecureContext
CanWriteText == navigator.clipboard # "none" /\ navigator.isSecureContext

\* "Fallback for older browsers": document.execCommand('copy') on a textarea
LegacyCopy(prepared, executed) ==
  Copying("done", prepared, <<Attempt("execCommand", "text/plain", executed)>>, <<>>,
          IF executed = "throws"
          THEN Rejected(<<"Failed to copy to clipboard: ", "Error: ",
                          "Failed to copy SVG to clipboard">>)
          ELSE Resolved)

\* "Fallback: Copy as text", up to the await of writeText
TextCopy(prepared, written, executed) ==
  IF CanWriteText
  THEN Copying("writeText", prepared,
               written \o <<Attempt("writeText", "text/plain", "pending")>>, <<>>, Pending)
  ELSE LegacyCopy(prepared, executed)

\* copySvgToClipboard up to its first await; executed is what execCommand
\* does if it comes to that
copySvgToClipboard(svg, executed) ==
  IF CanWriteItems
  THEN Copying("write", prepareSvgForClipboard(svg),
               <<Attempt("write", "image/svg+xml", "pending")>>, <<>>, Pending)
  ELSE TextCopy(prepareSvgForClipboard(svg), <<>>, executed)

\* as copySvgAsPng, but without the test for the clipboard
copySvgAsPngUnchecked(svg, size) == Copying("load", NoText, <<>>, <<"image">>, Pending)

\* copySvgAsPng up to img.src = url
copySvgAsPng(svg, size) ==
  IF navigator.clipboard # "write"
  THEN Copying("done", NoText, <<>>, <<>>, Rejected(<<"Clipboard API not available">>))
  ELSE Copying("load", NoText, <<>>, <<"image">>, Pending)

\* The display effect of IconItem: "Apply pack-specific colors to SVG for display"
DisplayEffect(dom, color, pack) ==
  LET svg == querySelector(dom, "svg")
  IN  IF dom = NoDocument \/ pack = NoPack \/ svg = <<>> THEN dom
      ELSE ReplaceAt(dom, svg, applyPackSpecificColorToSvg(NodeAt(dom, svg), color, pack))

\* new Image() with img.src the URL of the svg, to be drawn on a canvas of the size
Image(svg, size) == [src |-> svg, size |-> size]

NoImage == Image(NoText, 0)

NoTile == <<>>

NoBrowser == <<>>

\* the tile as a component of its own, with any props
InitProps(icons, packs, colors, backgrounds, paddings, radii) ==
  /\ source \in icons
  /\ packId \in packs
  /\ iconColor \in colors
  /\ backgroundColor \in backgrounds
  /\ copySize = 64
  /\ currentPadding \in paddings
  /\ currentCornerRadius \in radii
  /\ live = DisplayEffect(source, iconColor, packId)
  /\ applied = IF packId = NoPack THEN <<>> ELSE <<iconColor>>
  /\ result = NoResult
  /\ other = NoTile
  /\ browser = NoBrowser
  /\ localStorage = NoBrowser

\* the copy format, the clipboard of the environment, and no copy under way
InitClipboard(formats, clipboards) ==
  /\ currentFormat \in formats
  /\ navigator \in clipboards
  /\ pc = NotCopying.pc
  /\ preparedSvg = NotCopying.preparedSvg
  /\ attempts = NotCopying.attempts
  /\ raster = NotCopying.raster
  /\ copy = NotCopying.copy
  /\ calls = <<>>
  /\ toasts = <<>>
  /\ style = ""
  /\ timeouts = <<>>
  /\ img = NoImage

\* Environments: no navigator.clipboard (an old browser, or a context that is
\* not secure), a clipboard with writeText only, one with write as well
Clipboard(api, secure) == [clipboard |-> api, isSecureContext |-> secure]
Navigators ==
  { Clipboard("none", FALSE), Clipboard("none", TRUE),
    Clipboard("writeText", TRUE), Clipboard("write", TRUE) }

InitTrees ==
  /\ InitProps(TreeIcons, PackIds, {"#ff0000"}, BackgroundColors,
               {Hundredths(0), Hundredths(10)}, {FromInt(0), FromInt(50)})
  /\ InitClipboard({"png"}, {Clipboard("none", TRUE)})

InitGeometry ==
  /\ InitProps(GeometryIcons, PackIds, {"#ff0000"}, BackgroundColors, Paddings, CornerRadii)
  /\ InitClipboard({"png"}, {Clipboard("none", TRUE)})

InitPaint ==
  /\ InitProps(PaintedIcons, PackIds \cup {"fa6"}, IconColors, {"transparent"},
               {Hundredths(0)}, {FromInt(0)})
  /\ InitClipboard({"png"}, {Clipboard("none", TRUE)})

InitNested ==
  /\ InitProps(NestedIcons \cup {Placeholder}, PackIds, {"#ff0000"}, BackgroundColors,
               {Hundredths(0), Hundredths(10)}, {FromInt(0), FromInt(50)})
  /\ InitClipboard({"png"}, {Clipboard("none", TRUE)})

\* the namespace declarations the root of a rendered icon may carry
NamespaceAttrs ==
  { a @@ b : a \in OptionalAttr("xmlns", {SvgNamespace}),
             b \in OptionalAttr("xmlns:xlink", {"http://www.w3.org/1999/xlink"}) }

CopiedIcons ==
  { Icon(RootAttrs(ViewBox24) @@ ns, <<Element("path", NoAttrs, <<>>, "icon")>>) :
      ns \in NamespaceAttrs }

\* Icons copied in either format in every environment
InitCopy ==
  /\ InitProps(CopiedIcons \cup {Placeholder}, {"feather"}, {"#ff0000"}, {"transparent"},
               {Hundredths(0)}, {FromInt(0)})
  /\ InitClipboard({"text", "png"}, Navigators)

Init == InitTrees \/ InitGeometry \/ InitPaint \/ InitNested \/ InitCopy

\* The iconColor prop changes and the display effect runs again
SetIconColor(c) ==
  /\ c # iconColor
  /\ iconColor' = c
  /\ live' = DisplayEffect(live, c, packId)
  /\ applied' = IF packId = NoPack THEN <<>>
                ELSE IF applied = <<>> THEN <<c>>
                ELSE <<applied[Len(applied)], c>>
  /\ result' = NoResult
  /\ UNCHANGED <<source, packId, backgroundColor, copySize, currentPadding, currentCornerRadius,
                 currentFormat, navigator, pc, preparedSvg, attempts, raster, copy,
                 calls, toasts, style, timeouts, img, other, browser, localStorage>>

\* what handleClick does with svgString, up to the first suspension
Started(svgString, executed) ==
  IF svgString.kind # "string" THEN NotCopying
  ELSE IF currentFormat = "png" THEN copySvgAsPng(outerHTML(svgString.doc), copySize)
  ELSE copySvgToClipboard(outerHTML(svgString.doc), executed)

\* the toast of the catch around the copy
ErrorMessage(error) ==
  IF \E i \in DOMAIN error : error[i] = DomException("unsupported")
  THEN <<"Your browser doesn't support copying files. Try copying as SVG or PNG instead.">>
  ELSE error

Toast(kind, message) == [kind |-> kind, message |-> message]

SuccessHighlight == "rgba(34, 197, 94, 0.2)"

\* handleClick after the await of the copy function: the toasts shown, the
\* background of the tile and the pending timeouts
AfterCopy(promise, shown, background, pending) ==
  IF promise.state = "resolved"
  THEN [toasts |-> shown \o <<Toast("success", <<"copied to clipboard">>)>>,
        style |-> SuccessHighlight, timeouts |-> pending \o <<background>>]
  ELSE IF promise.state = "rejected"
  THEN [toasts |-> shown \o <<Toast("error", ErrorMessage(promise.error))>>,
        style |-> background, timeouts |-> pending]
  ELSE [toasts |-> shown, style |-> background, timeouts |-> pending]

\* handleClick goes on when the promise it awaits has settled
Continue ==
  /\ toasts' = AfterCopy(copy', toasts, style, timeouts).toasts
  /\ style' = AfterCopy(copy', toasts, style, timeouts).style
  /\ timeouts' = AfterCopy(copy', toasts, style, timeouts).timeouts

\* handleClick, up to the first suspension of the copy function it calls, and
\* to its end where that function does not suspend
HandleClick ==
  /\ live # NoDocument
  /\ pc \in {"idle", "done"}
  /\ Len(timeouts) < MaxTimeouts
  /\ result' = getSvgStringFromElement(live, iconColor, backgroundColor, copySize,
                                       currentPadding, currentCornerRadius, packId)
  /\ \E executed \in ExecCommandOutcomes :
       /\ pc' = Started(result', executed).pc
       /\ preparedSvg' = Started(result', executed).preparedSvg
       /\ attempts' = Started(result', executed).attempts
       /\ raster' = Started(result', executed).raster
       /\ copy' = Started(result', executed).copy
  /\ calls' = IF raster' # <<>> THEN <<"createObjectURL">> ELSE <<>>
  /\ img' = IF raster' # <<>> THEN Image(outerHTML(result'.doc), copySize) ELSE NoImage
  /\ IF result'.kind = "threw"
     THEN /\ toasts' = <<Toast("error", <<"Failed to process icon. Please try again.">>)>>
          /\ UNCHANGED <<style, timeouts>>
     ELSE /\ toasts' = AfterCopy(copy', <<>>, style, timeouts).toasts
          /\ style' = AfterCopy(copy', <<>>, style, timeouts).style
          /\ timeouts' = AfterCopy(copy', <<>>, style, timeouts).timeouts
  /\ UNCHANGED <<source, live, packId, iconColor, backgroundColor, copySize,
                 currentPadding, currentCornerRadius, applied, currentFormat, navigator,
                 other, browser, localStorage>>

\* the last attempt settles with the outcome
Settled(outcome) == [attempts EXCEPT ![Len(attempts)].outcome = outcome]

Untouched ==
  UNCHANGED <<source, live, packId, iconColor, backgroundColor, copySize, currentPadding,
              currentCornerRadius, applied, result, currentFormat, navigator, preparedSvg,
              img, other, browser, localStorage>>

\* await navigator.clipboard.write([clipboardItem]) of copySvgToClipboard
\* returns, or throws into "fall through to text copy"
SvgWriteSettles(outcome) ==
  /\ pc = "write"
  /\ IF outcome = "ok"
     THEN /\ pc' = "done"
          /\ attempts' = Settled(outcome)
          /\ copy' = Resolved
     ELSE /\ pc' = TextCopy(preparedSvg, Settled(outcome), "true").pc
          /\ attempts' = TextCopy(preparedSvg, Settled(outcome), "true").attempts
          /\ copy' = TextCopy(preparedSvg, Settled(outcome), "true").copy
  /\ Continue
  /\ UNCHANGED <<raster, calls>>
  /\ Untouched

\* await navigator.clipboard.writeText(preparedSvg) returns or throws
WriteTextSettles(outcome) ==
  /\ pc = "writeText"
  /\ pc' = "done"
  /\ attempts' = Settled(outcome)
  /\ copy' = IF outcome = "ok" THEN Resolved
             ELSE Rejected(<<"Failed to copy to clipboard: ", DomException(outcome)>>)
  /\ Continue
  /\ UNCHANGED <<raster, calls>>
  /\ Untouched

\* as onerror, but resolving the promise
onerrorResolving ==
  /\ pc = "load"
  /\ pc' = "done"
  /\ raster' = raster \o <<"error">>
  /\ copy' = Resolved
  /\ calls' = calls \o <<"revokeObjectURL", "resolve">>
  /\ Continue
  /\ UNCHANGED attempts
  /\ Untouched

\* img.onerror of copySvgAsPng
onerror ==
  /\ pc = "load"
  /\ pc' = "done"
  /\ raster' = raster \o <<"error">>
  /\ copy' = Rejected(<<"Failed to load SVG image">>)
  /\ calls' = calls \o <<"revokeObjectURL", "reject">>
  /\ Continue
  /\ UNCHANGED attempts
  /\ Untouched

\* what canvas.getContext('2d') returns, and "throws" for a context whose
\* drawImage throws
Contexts == {"2d", "null", "throws"}

\* img.onload of copySvgAsPng, up to canvas.toBlob
onload(context) ==
  /\ pc = "load"
  /\ IF context = "null"
     THEN /\ pc' = "done"
          /\ raster' = raster \o <<"no context">>
          /\ copy' = Rejected(<<"Canvas context not available">>)
          /\ calls' = calls \o <<"revokeObjectURL", "reject">>
     ELSE IF context = "throws"
     THEN /\ pc' = "done"
          /\ raster' = raster \o <<"threw">>
          /\ copy' = Rejected(<<"InvalidStateError">>)
          /\ calls' = calls \o <<"revokeObjectURL", "reject">>
     ELSE /\ pc' = "toBlob"
          /\ raster' = raster \o <<"drawImage">>
          /\ copy' = copy
          /\ calls' = calls
  /\ Continue
  /\ UNCHANGED attempts
  /\ Untouched

\* as toBlob, but without revoking the URL when there is no blob
toBlobKeepingUrl(pngBlob) ==
  /\ pc = "toBlob"
  /\ IF pngBlob = "null"
     THEN /\ pc' = "done"
          /\ raster' = raster \o <<"no blob">>
          /\ attempts' = attempts
          /\ copy' = Rejected(<<"Failed to convert SVG to PNG">>)
          /\ calls' = calls \o <<"reject">>
     ELSE /\ pc' = "writePng"
          /\ raster' = raster \o <<"blob">>
          /\ attempts' = attempts \o <<Attempt("write", "image/png", "pending")>>
          /\ copy' = copy
          /\ calls' = calls
  /\ Continue
  /\ Untouched

\* the callback of canvas.toBlob, up to the await of navigator.clipboard.write
toBlob(pngBlob) ==
  /\ pc = "toBlob"
  /\ IF pngBlob = "null"
     THEN /\ pc' = "done"
          /\ raster' = raster \o <<"no blob">>
          /\ attempts' = attempts
          /\ copy' = Rejected(<<"Failed to convert SVG to PNG">>)
          /\ calls' = calls \o <<"revokeObjectURL", "reject">>
     ELSE /\ pc' = "writePng"
          /\ raster' = raster \o <<"blob">>
          /\ attempts' = attempts \o <<Attempt("write", "image/png", "pending")>>
          /\ copy' = copy
          /\ calls' = calls
  /\ Continue
  /\ Untouched

\* await navigator.clipboard.write([clipboardItem]) of copySvgAsPng returns or
\* throws
PngWriteSettles(outcome) ==
  /\ pc = "writePng"
  /\ pc' = "done"
  /\ attempts' = Settled(outcome)
  /\ copy' = IF outcome = "ok" THEN Resolved
             ELSE Rejected(<<"Failed to copy PNG to clipboard. Your browser may not support copying image files.">>)
  /\ calls' = calls \o <<"revokeObjectURL", IF outcome = "ok" THEN "resolve" ELSE "reject">>
  /\ Continue
  /\ UNCHANGED raster
  /\ Untouched

\* the callback of setTimeout(..., 500): callbacks of one delay run in the
\* order they were set
Timeout ==
  /\ timeouts # <<>>
  /\ style' = Head(timeouts)
  /\ timeouts' = Tail(timeouts)
  /\ UNCHANGED <<pc, attempts, raster, copy, calls, toasts>>
  /\ Untouched

Next ==
  \/ \E c \in IconColors : SetIconColor(c)
  \/ HandleClick
  \/ \E outcome \in WriteOutcomes : SvgWriteSettles(outcome)
  \/ \E outcome \in WriteTextOutcomes : WriteTextSettles(outcome)
  \/ onerror
  \/ \E context \in Contexts : onload(context)
  \/ \E pngBlob \in {"blob", "null"} : toBlob(pngBlob)
  \/ \E outcome \in PngWriteOutcomes : PngWriteSettles(outcome)
  \/ Timeout

Spec == Init /\ [][Next]_vars

(***************************************************************************)
(* The IconBrowser component around the tile: its colours, padding, corner *)
(* radius and dark mode, the settings it keeps in localStorage, and the    *)
(* controls that change them.  A text is a numeral; a text no number can   *)
(* be read from has no digits.                                             *)
(***************************************************************************)
\* null or '': the key is not set
NoItem == Numeral(FALSE, <<>>, 0)

\* a text that does not begin with a numeral, such as 'abc'
NoNumeral == Numeral(FALSE, <<>>, 1)

NaN == [neg |-> FALSE, m |-> <<>>, e |-> 1]

isNaN(a) == a = NaN

\* the numerals the model has in localStorage and types into the inputs
TypedNumerals ==
  { Numeral(FALSE, <<2>>, 0), Numeral(FALSE, <<7>>, 0), Numeral(TRUE, <<1>>, 0),
    Num(10), Num(25), Num(70), Num(80), Numeral(TRUE, <<1, 0>>, 2), Numeral(TRUE, <<3>>, 1) }

\* StringToNumber, computed once for these numerals
TypedNumbers == [t \in TypedNumerals |-> StringToNumber(t)]

parseFloat(text) == IF text.digits = <<>> THEN NaN ELSE TypedNumbers[text]

\* the paddings and corner radii the controls can be set to, and two
\* paddings they cannot
SettingValues ==
  { Hundredths(k) : k \in {-10, 0, 5, 10, 20, 40, 50, 80} } \cup { FromInt(r) : r \in {0, 25, 50} }

\* Number::toString, computed once for these numbers
SettingStrings == [a \in SettingValues |-> NumberToString(a)]

DEFAULT_COLOR == "#64748b"

DEFAULT_PADDING == Hundredths(10)

DEFAULT_CORNER_RADIUS == FZero

MIN_PADDING == FZero

MAX_PADDING == Hundredths(50)

\* "Load saved colors, or use defaults if none saved"
LoadedColors(savedForeground, savedBackground) ==
  LET initialBg == IF savedBackground # "" THEN savedBackground ELSE "transparent"
  IN  [bg |-> initialBg,
       fg |-> IF savedForeground # "" THEN savedForeground
              ELSE IF initialBg # "transparent" THEN generateComplementaryColor(initialBg)
              ELSE DEFAULT_COLOR]

\* "Load saved padding"
LoadedPadding(savedPadding) ==
  IF savedPadding # NoItem /\ ~isNaN(parseFloat(savedPadding))
     /\ FCmp(parseFloat(savedPadding), FZero) >= 0
     /\ FCmp(parseFloat(savedPadding), Hundredths(50)) <= 0
  THEN parseFloat(savedPadding)
  ELSE DEFAULT_PADDING

\* "Load saved corner radius"
LoadedCornerRadius(savedCornerRadius) ==
  IF savedCornerRadius # NoItem /\ ~isNaN(parseFloat(savedCornerRadius))
     /\ FCmp(parseFloat(savedCornerRadius), FZero) >= 0
     /\ FCmp(parseFloat(savedCornerRadius), FromInt(50)) <= 0
  THEN parseFloat(savedCornerRadius)
  ELSE DEFAULT_CORNER_RADIUS

\* the state of IconBrowser after the effect that runs when it is mounted,
\* with the colours it has loaded
Mounted(saved, colors, dark) ==
  [backgroundColor |-> colors.bg,
   foregroundColor |-> colors.fg,
   iconPadding     |-> LoadedPadding(saved.iconPadding),
   cornerRadius    |-> LoadedCornerRadius(saved.iconCornerRadius),
   darkMode        |-> dark]

\* localStorage after that effect: the colours are saved where none were
Stored(saved, colors) ==
  [saved EXCEPT !.iconColor = colors.fg, !.iconBackgroundColor = colors.bg]

\* "Get colors adjusted for dark mode"
getDisplayColors(b) ==
  IF b.darkMode THEN adjustColorsForDarkMode(b.backgroundColor, b.foregroundColor)
  ELSE [bg |-> b.backgroundColor, fg |-> b.foregroundColor]

\* what an earlier visit may have left in localStorage
Saved(foreground, background, padding, cornerRadius) ==
  [iconColor |-> foreground, iconBackgroundColor |-> background,
   iconPadding |-> padding, iconCornerRadius |-> cornerRadius]

\* what an earlier visit may have left in localStorage: nothing; settings in
\* range; a padding of 0.7, of -0.1 and 'abc'; a corner radius of 70
SavedSettings ==
  { Saved("", "", NoItem, NoItem),
    Saved("#ff0000", "transparent", Numeral(FALSE, <<2>>, 0), Num(25)),
    Saved("#ff0000", "#112233", Numeral(FALSE, <<7>>, 0), NoItem),
    Saved("", "#112233", Numeral(TRUE, <<1>>, 0), Num(70)),
    Saved("", "transparent", NoNumeral, NoItem) }

BrowsedIcons ==
  { Icon(RootAttrs(ViewBox24), <<Element("path", Attr("stroke", "currentColor"), <<>>, "icon")>>) }

\* IconBrowser mounted, with the tile of an icon in its grid: the grid
\* passes no packId
InitBrowser ==
  /\ \E saved \in SavedSettings, dark \in BOOLEAN :
       \E colors \in {LoadedColors(saved.iconColor, saved.iconBackgroundColor)} :
         /\ browser = Mounted(saved, colors, dark)
         /\ localStorage = Stored(saved, colors)
  /\ source \in BrowsedIcons
  /\ packId = NoPack
  /\ \E displayColors \in {getDisplayColors(browser)} :
       /\ iconColor = displayColors.fg
       /\ backgroundColor = displayColors.bg
  /\ copySize = 64
  /\ currentPadding = browser.iconPadding
  /\ currentCornerRadius = browser.cornerRadius
  /\ live = DisplayEffect(source, iconColor, packId)
  /\ applied = <<>>
  /\ result = NoResult
  /\ other = NoTile
  /\ InitClipboard({"png"}, {Clipboard("none", TRUE)})

\* IconBrowser renders again with the padding and corner radius of b, which
\* the tile is passed as props and sent as events; its colours are as before
Resized(b, storage) ==
  /\ browser' = b
  /\ localStorage' = storage
  /\ currentPadding' = b.iconPadding
  /\ currentCornerRadius' = b.cornerRadius
  /\ result' = NoResult
  /\ UNCHANGED <<source, live, packId, iconColor, backgroundColor, copySize, applied,
                 currentFormat, navigator, pc, preparedSvg, attempts, raster, copy, calls,
                 toasts, style, timeouts, img, other>>

\* IconBrowser renders again with the colours and the dark mode of b, and
\* passes the tile const displayColors
Recolored(b, storage) ==
  /\ browser' = b
  /\ localStorage' = storage
  /\ \E displayColors \in {getDisplayColors(b)} :
       /\ iconColor' = displayColors.fg
       /\ backgroundColor' = displayColors.bg
  /\ result' = NoResult
  /\ UNCHANGED <<source, live, packId, copySize, currentPadding, currentCornerRadius, applied,
                 currentFormat, navigator, pc, preparedSvg, attempts, raster, copy, calls,
                 toasts, style, timeouts, img, other>>

handlePaddingChange(padding) ==
  Resized([browser EXCEPT !.iconPadding = padding],
         [localStorage EXCEPT !.iconPadding = SettingStrings[padding]])

handleCornerRadiusChange(radius) ==
  Resized([browser EXCEPT !.cornerRadius = radius],
         [localStorage EXCEPT !.iconCornerRadius = SettingStrings[radius]])

\* the values the padding slider can be moved to: min, max and multiples of
\* the step between them
SliderValues == { Hundredths(k) : k \in {0, 5, 50} }

\* PaddingSettings
handleSliderChange(values) == handlePaddingChange(values[1])

\* what can be typed into the number input of the padding, in percent
PaddingInputs == {NoItem, Num(10), Num(80), Numeral(TRUE, <<1, 0>>, 2)}

\* as handleInputChange, but without clamping the value
handleInputChangeUnclamped(inputValue) ==
  /\ inputValue # NoItem
  /\ ~isNaN(parseFloat(inputValue))
  /\ handlePaddingChange(FDiv(parseFloat(inputValue), FromInt(100)))

\* PaddingSettings
handleInputChange(inputValue) ==
  /\ inputValue # NoItem
  /\ ~isNaN(parseFloat(inputValue))
  /\ handlePaddingChange(FMax(MIN_PADDING,
                              FMin(MAX_PADDING, FDiv(parseFloat(inputValue), FromInt(100)))))

PADDING_PRESETS == { Hundredths(k) : k \in {0, 5, 20, 40} }

\* PaddingSettings
handlePresetClick(presetValue) == handlePaddingChange(presetValue)

CORNER_RADIUS_PRESETS == { FromInt(r) : r \in {0, 50} }

\* CornerRadiusSettings
handleRadiusPresetClick(presetValue) == handleCornerRadiusChange(presetValue)

\* what can be typed into the custom input of the corner radius
RadiusInputs == {NoItem, Num(25), Num(70), Numeral(TRUE, <<3>>, 1)}

\* CornerRadiusSettings
handleCustomChange(inputValue) ==
  /\ ~isNaN(parseFloat(inputValue))
  /\ FCmp(parseFloat(inputValue), FZero) >= 0
  /\ FCmp(parseFloat(inputValue), FromInt(50)) <= 0
  /\ handleCornerRadiusChange(parseFloat(inputValue))

handleBackgroundChange(color) ==
  Recolored([browser EXCEPT !.backgroundColor = color],
         [localStorage EXCEPT !.iconBackgroundColor = color])

handleForegroundChange(color) ==
  Recolored([browser EXCEPT !.foregroundColor = color],
         [localStorage EXCEPT !.iconColor = color])

handleSwapColors ==
  /\ browser.backgroundColor # "transparent"
  /\ Recolored([browser EXCEPT !.backgroundColor = browser.foregroundColor,
                            !.foregroundColor = browser.backgroundColor],
            [localStorage EXCEPT !.iconBackgroundColor = browser.foregroundColor,
                                 !.iconColor = browser.backgroundColor])

\* the colour scheme changes: setDarkMode(isDarkMode())
updateDarkMode(dark) ==
  /\ dark # browser.darkMode
  /\ Recolored([browser EXCEPT !.darkMode = dark], localStorage)

NextBrowser ==
  \/ \E values \in { <<v>> : v \in SliderValues } : handleSliderChange(values)
  \/ \E inputValue \in PaddingInputs : handleInputChange(inputValue)
  \/ \E presetValue \in PADDING_PRESETS : handlePresetClick(presetValue)
  \/ \E presetValue \in CORNER_RADIUS_PRESETS : handleRadiusPresetClick(presetValue)
  \/ \E inputValue \in RadiusInputs : handleCustomChange(inputValue)
  \/ \E color \in BackgroundColors : handleBackgroundChange(color)
  \/ \E color \in IconColors : handleForegroundChange(color)
  \/ handleSwapColors
  \/ \E dark \in BOOLEAN : updateDarkMode(dark)
  \/ HandleClick

SpecBrowser == InitBrowser /\ [][NextBrowser]_vars

(***************************************************************************)
(* Two tiles of the grid.  IconBrowser renders one IconItem per icon, all  *)
(* with the same props but each with its own refs and state, and each call *)
(* of getSvgStringFromElement, copySvgToClipboard and copySvgAsPng has its *)
(* own locals (clone, preparedSvg, img, canvas, url).  The variables above *)
(* follow one tile and the copy it has under way; other holds the same for *)
(* the second tile, and the event loop may turn from one to the other      *)
(* whenever a handler or callback has returned.  The timers of the         *)
(* highlight stay pending here: the copies overlap within their 500 ms.    *)
(***************************************************************************)
Tile(icon, dom, colors, returned, at, prepared, written, drawn, promise, made, shown, background, pending, image) ==
  [source |-> icon, live |-> dom, applied |-> colors, result |-> returned, pc |-> at,
   preparedSvg |-> prepared, attempts |-> written, raster |-> drawn, copy |-> promise,
   calls |-> made, toasts |-> shown, style |-> background, timeouts |-> pending,
   img |-> image]

\* the tile the variables follow
ThisTile ==
  Tile(source, live, applied, result, pc, preparedSvg, attempts, raster, copy, calls, toasts,
       style, timeouts, img)

\* a tile as it is mounted
MountedTile(icon) ==
  Tile(icon, DisplayEffect(icon, iconColor, packId),
       IF packId = NoPack THEN <<>> ELSE <<iconColor>>, NoResult, NotCopying.pc,
       NotCopying.preparedSvg, NotCopying.attempts, NotCopying.raster, NotCopying.copy,
       <<>>, <<>>, "", <<>>, NoImage)

\* as Switch, but with preparedSvg and the image kept in one place for all
\* the tiles
SwitchSharingDocument ==
  /\ other # NoTile
  /\ other' = ThisTile
  /\ source' = other.source
  /\ live' = other.live
  /\ applied' = other.applied
  /\ result' = other.result
  /\ pc' = other.pc
  /\ attempts' = other.attempts
  /\ raster' = other.raster
  /\ copy' = other.copy
  /\ calls' = other.calls
  /\ toasts' = other.toasts
  /\ style' = other.style
  /\ timeouts' = other.timeouts
  /\ UNCHANGED <<preparedSvg, img>>
  /\ UNCHANGED <<packId, iconColor, backgroundColor, copySize, currentPadding,
                 currentCornerRadius, currentFormat, navigator, browser, localStorage>>

\* the next event is one of the other tile
Switch ==
  /\ other # NoTile
  /\ other' = ThisTile
  /\ source' = other.source
  /\ live' = other.live
  /\ applied' = other.applied
  /\ result' = other.result
  /\ pc' = other.pc
  /\ attempts' = other.attempts
  /\ raster' = other.raster
  /\ copy' = other.copy
  /\ calls' = other.calls
  /\ toasts' = other.toasts
  /\ style' = other.style
  /\ timeouts' = other.timeouts
  /\ preparedSvg' = other.preparedSvg
  /\ img' = other.img
  /\ UNCHANGED <<packId, iconColor, backgroundColor, copySize, currentPadding,
                 currentCornerRadius, currentFormat, navigator, browser, localStorage>>

\* two icons of one pack that differ in their content
PairIcons ==
  { Icon(RootAttrs(ViewBox24), <<Element(tag, NoAttrs, <<>>, "icon")>>) : tag \in {"path", "circle"} }

InitPair ==
  /\ source = Icon(RootAttrs(ViewBox24), <<Element("path", NoAttrs, <<>>, "icon")>>)
  /\ packId = "feather"
  /\ iconColor = "#ff0000"
  /\ backgroundColor = "transparent"
  /\ copySize = 64
  /\ currentPadding \in {Hundredths(0), Hundredths(10)}
  /\ currentCornerRadius = FromInt(0)
  /\ live = DisplayEffect(source, iconColor, packId)
  /\ applied = <<iconColor>>
  /\ result = NoResult
  /\ \E icon \in PairIcons \ {source} : other = MountedTile(icon)
  /\ browser = NoBrowser
  /\ localStorage = NoBrowser
  /\ InitClipboard({"text", "png"}, {Clipboard("writeText", TRUE), Clipboard("write", TRUE)})

NextPair ==
  \/ HandleClick
  \/ \E outcome \in WriteOutcomes : SvgWriteSettles(outcome)
  \/ \E outcome \in WriteTextOutcomes : WriteTextSettles(outcome)
  \/ onerror
  \/ \E context \in Contexts : onload(context)
  \/ \E pngBlob \in {"blob", "null"} : toBlob(pngBlob)
  \/ \E outcome \in PngWriteOutcomes : PngWriteSettles(outcome)
  \/ Switch

SpecPair == InitPair /\ [][NextPair]_vars

(***************************************************************************)
(* What the properties below look at: the svg element of the rendered icon *)
(* and of the live DOM, the document of the last copy, and its elements in *)
(* document order.                                                         *)
(***************************************************************************)
SvgOf(dom) == NodeAt(dom, querySelector(dom, "svg"))

Copied == result.kind = "string"

IsGuard(el) == el.tag = "rect" /\ hasAttribute(el, "opacity") /\ el.attrs["opacity"] = "0.001"

GuardCount(doc) ==
  Cardinality({ i \in DOMAIN DocumentOrder(doc) : IsGuard(DocumentOrder(doc)[i]) })

HasViewBox(svg) == hasAttribute(svg, "viewBox") /\ Len(svg.attrs["viewBox"]) = 4

\* C1: with padding 0 (any colour, background, corner radius and pack) the
\* copied document's viewBox is the viewBox of the icon, and the document
\* holds no guard rectangle (no rect with opacity 0.001).
C1_ZeroPaddingKeepsViewBox ==
  (Copied /\ currentPadding = FZero /\ hasAttribute(SvgOf(source), "viewBox"))
    => /\ hasAttribute(result.doc, "viewBox")
       /\ result.doc.attrs["viewBox"] = SvgOf(source).attrs["viewBox"]
       /\ GuardCount(result.doc) = 0

C1_Witness ==
  /\ Copied /\ currentPadding = FZero
  /\ backgroundColor # "transparent" /\ currentCornerRadius = FromInt(50)
  /\ HasViewBox(SvgOf(source)) /\ SvgOf(source).attrs["viewBox"] # ViewBox24
  /\ result.doc.attrs["viewBox"] = SvgOf(source).attrs["viewBox"]

\* The four Numbers a viewBox attribute of four numerals denotes
BoxOf(viewBox) ==
  [x |-> NumberOf(viewBox[1]), y |-> NumberOf(viewBox[2]),
   width |-> NumberOf(viewBox[3]), height |-> NumberOf(viewBox[4])]

InPaddingRange(p) == FCmp(p, FZero) > 0 /\ FCmp(p, Hundredths(50)) <= 0

\* C2: for an original viewBox (x, y, w, h) and a padding p in (0, 0.5], the
\* viewBox of the copied document denotes exactly x - m, y - m, w + 2m and
\* h + 2m with m = min(w, h) * p, every operation being the one of
\* ECMAScript Numbers (binary64, round to nearest).
C2_ExpandedViewBox ==
  (Copied /\ InPaddingRange(currentPadding) /\ HasViewBox(SvgOf(source)))
    => LET o == BoxOf(SvgOf(source).attrs["viewBox"])
           m == FMul(FMin(o.width, o.height), currentPadding)
       IN  /\ HasViewBox(result.doc)
           /\ BoxOf(result.doc.attrs["viewBox"]) =
                [x |-> FSub(o.x, m), y |-> FSub(o.y, m),
                 width  |-> FAdd(o.width, FMul(FromInt(2), m)),
                 height |-> FAdd(o.height, FMul(FromInt(2), m))]

C2_Witness ==
  /\ Copied /\ currentPadding = Hundredths(5)
  /\ HasViewBox(SvgOf(source))
  /\ BoxOf(SvgOf(source).attrs["viewBox"]).width = FromInt(32)
  /\ BoxOf(SvgOf(source).attrs["viewBox"]).height = FromInt(20)
  /\ BoxOf(result.doc.attrs["viewBox"]).width = FromInt(34)
  /\ BoxOf(result.doc.attrs["viewBox"]).x = FromInt(-1)

C3_Scenario ==
  /\ Copied
  /\ hasAttribute(SvgOf(source), "viewBox") /\ SvgOf(source).attrs["viewBox"] = ViewBox24
  /\ currentPadding = Hundredths(10)
  /\ packId = "feather" /\ iconColor = "#ff0000" /\ backgroundColor = "transparent"

\* C3: copying an icon with viewBox "0 0 24 24" at padding 0.10, feather,
\* colour #ff0000 and a transparent background gives a document whose viewBox
\* attribute is "-2.4 -2.4 28.8 28.8" and that holds exactly one guard
\* rectangle with opacity 0.001.
C3_ScenarioViewBox ==
  C3_Scenario
    => /\ result.doc.attrs["viewBox"] =
            <<Numeral(TRUE, <<2, 4>>, 1), Numeral(TRUE, <<2, 4>>, 1),
              Numeral(FALSE, <<2, 8, 8>>, 2), Numeral(FALSE, <<2, 8, 8>>, 2)>>
       /\ GuardCount(result.doc) = 1

\* The elements the icon consists of in a document, in document order: what
\* lies below the root, outside the <defs> among the root's children, and
\* was not put there by the assembler (the clip group holds icon content).
RECURSIVE ContentRoots(_, _)
ContentRoots(kids, i) ==
  IF i > Len(kids) THEN <<>>
  ELSE (IF kids[i].origin = "clipGroup" THEN kids[i].kids
        ELSE IF kids[i].origin = "icon" /\ kids[i].tag # "defs" THEN <<kids[i]>>
        ELSE <<>>) \o ContentRoots(kids, i + 1)

IconContent(svg) == DocumentOrderOfKids(ContentRoots(svg.kids, 1), 1)

Pairs(before, after) ==
  { [before |-> before[i], after |-> after[i]] : i \in 1..Min2(Len(before), Len(after)) }

\* Every element colorize has been applied to, as the icon component rendered
\* it (before) and as it is now (after): by the display effect, every element
\* below the live svg; by a copy, the icon content of the copied document.
Colorized ==
  (IF packId # NoPack
   THEN Pairs(DocumentOrderOfKids(SvgOf(source).kids, 1), DocumentOrderOfKids(SvgOf(live).kids, 1))
   ELSE {})
  \cup (IF Copied THEN Pairs(IconContent(SvgOf(source)), IconContent(result.doc)) ELSE {})

\* the shape elements of the icon in the live DOM and in the copied document
IconShapes ==
  { el \in { DocumentOrder(SvgOf(live))[i] : i \in DOMAIN DocumentOrder(SvgOf(live)) }
           \cup (IF Copied THEN { DocumentOrder(result.doc)[i] : i \in DOMAIN DocumentOrder(result.doc) }
                 ELSE {}) :
      el.origin = "icon" /\ el.tag \in ShapeTags }

\* C4: under pack 'feather', after colorize every shape element at any
\* depth of the icon has stroke equal to the icon colour, fill "none" and a
\* stroke-width other than 0, whatever it carried before.
C4_FeatherShapes ==
  packId = "feather"
    => \A el \in IconShapes :
         /\ hasAttribute(el, "stroke") /\ el.attrs["stroke"] = iconColor
         /\ hasAttribute(el, "fill") /\ el.attrs["fill"] = "none"
         /\ hasAttribute(el, "stroke-width") /\ el.attrs["stroke-width"] \notin {"0", ""}

C4_Witness ==
  /\ packId = "feather" /\ Copied
  /\ \E p \in Colorized :
       /\ p.after.tag \in ShapeTags
       /\ hasAttribute(p.before, "stroke") /\ p.before.attrs["stroke"] = "none"
       /\ hasAttribute(p.before, "fill") /\ p.before.attrs["fill"] = "currentColor"
       /\ hasAttribute(p.before, "stroke-width") /\ p.before.attrs["stroke-width"] = "0"
       /\ p.after.attrs["stroke"] = iconColor /\ p.after.attrs["stroke-width"] = "2"
  /\ \E g \in Colorized : g.after.tag = "g" /\ g.after.kids # <<>>

\* an attribute or style declaration of the element carries the value
Carries(el, value) ==
  \E n \in DOMAIN el.attrs :
    IF n = "style" THEN \E i \in DOMAIN el.attrs[n] : el.attrs[n][i].value = value
    ELSE el.attrs[n] = value

\* C5: colorize overwrites: after the display effect has applied colour C1
\* and then colour C2, the live DOM is what applying C2 alone to the rendered
\* icon gives, and a feather shape has stroke C2, fill "none" and no trace of
\* C1 in an attribute or in its style; applying the same colour once more (to
\* the copy) changes no element of the icon.
C5_ColorizeOverwrites ==
  /\ Len(applied) = 2
       => /\ live = DisplayEffect(source, applied[2], packId)
          /\ \A p \in Colorized :
               (packId = "feather" /\ p.after.tag \in ShapeTags)
                 => /\ p.after.attrs["stroke"] = applied[2]
                    /\ p.after.attrs["fill"] = "none"
                    /\ ~Carries(p.after, applied[1])
  /\ (Copied /\ packId # NoPack)
       => IconContent(result.doc) = IconContent(SvgOf(live))

C5_Witness ==
  /\ Len(applied) = 2 /\ applied[1] # applied[2] /\ Copied
  /\ packId \notin {"feather", "phosphor"}
  /\ \E p \in Colorized :
       /\ p.after.tag \in ShapeTags
       /\ hasAttribute(p.before, "stroke") /\ p.before.attrs["stroke"] = "currentColor"
       /\ hasAttribute(p.before, "style")
       /\ p.after.attrs["stroke"] = applied[2]

\* C6: under pack 'phosphor', after colorize every shape element has fill
\* equal to the icon colour; its stroke is "none" if it had a stroke
\* attribute before, and it has no stroke attribute if it had none.
C6_PhosphorShapes ==
  packId = "phosphor"
    => \A p \in Colorized :
         p.after.tag \in ShapeTags
           => /\ hasAttribute(p.after, "fill") /\ p.after.attrs["fill"] = iconColor
              /\ hasAttribute(p.before, "stroke")
                   => (hasAttribute(p.after, "stroke") /\ p.after.attrs["stroke"] = "none")
              /\ ~hasAttribute(p.before, "stroke") => ~hasAttribute(p.after, "stroke")

C6_Witness ==
  /\ packId = "phosphor" /\ Copied
  /\ \E p \in Colorized :
       /\ p.after.tag \in ShapeTags
       /\ hasAttribute(p.before, "stroke") /\ p.before.attrs["stroke"] = "currentColor"
       /\ ~hasAttribute(p.before, "fill")
       /\ p.after.attrs["stroke"] = "none" /\ p.after.attrs["fill"] = iconColor

\* what the fallback makes of a stroke or fill attribute
Rewritten(p, name, color) ==
  IF hasAttribute(p.before, name)
  THEN /\ hasAttribute(p.after, name)
       /\ p.after.attrs[name] = (IF p.before.attrs[name] # "none" THEN color ELSE "none")
  ELSE ~hasAttribute(p.after, name)

\* C7: with no pack id, or one other than 'feather' and 'phosphor', colorize
\* rewrites a shape's stroke to the icon colour iff the attribute exists and
\* is not "none", likewise its fill, leaves "none" as it is, and adds no
\* stroke, fill or stroke-width attribute that the element did not have.
C7_FallbackShapes ==
  packId \notin {"feather", "phosphor"}
    => \A p \in Colorized :
         p.after.tag \in ShapeTags
           => /\ Rewritten(p, "stroke", iconColor)
              /\ Rewritten(p, "fill", iconColor)
              /\ hasAttribute(p.after, "stroke-width") <=> hasAttribute(p.before, "stroke-width")
              /\ hasAttribute(p.after, "stroke-width")
                   => p.after.attrs["stroke-width"] = p.before.attrs["stroke-width"]

C7_Witness ==
  /\ packId = NoPack /\ Copied
  /\ \E p \in Colorized :
       /\ p.after.tag \in ShapeTags
       /\ hasAttribute(p.before, "stroke") /\ p.before.attrs["stroke"] = "none"
       /\ hasAttribute(p.before, "fill") /\ p.before.attrs["fill"] = "currentColor"
       /\ p.after.attrs["stroke"] = "none" /\ p.after.attrs["fill"] = iconColor
       /\ ~hasAttribute(p.after, "stroke-width")

\* the icon is a tree of shape elements and groups
ShapesAndGroups(svg) ==
  \A i \in DOMAIN DocumentOrderOfKids(svg.kids, 1) :
    DocumentOrderOfKids(svg.kids, 1)[i].tag \in ShapeTags \cup {"g"}

\* C8: after colorize, under every pack, no <g> element of the icon carries
\* a stroke, fill or stroke-width attribute (stated for the icons that are
\* trees of shapes and groups).
C8_GroupsCarryNoPaint ==
  \A p \in Colorized :
    (p.after.tag = "g" /\ ShapesAndGroups(SvgOf(source)))
      => /\ ~hasAttribute(p.after, "stroke")
         /\ ~hasAttribute(p.after, "fill")
         /\ ~hasAttribute(p.after, "stroke-width")

\* the shape elements among the icon content below the given children
ContentShapes(kids) ==
  { i \in DOMAIN DocumentOrderOfKids(ContentRoots(kids, 1), 1) :
      DocumentOrderOfKids(ContentRoots(kids, 1), 1)[i].tag \in ShapeTags }

\* C9: with a background colour other than transparent, the background
\* rectangle comes, in the document order of the copied document, before
\* every colorized shape element of the icon: it is a child of the root, and
\* no child before it is or contains a shape of the icon's content.
C9_BackgroundBeforeShapes ==
  (Copied /\ backgroundColor # "transparent")
    => \E k \in DOMAIN result.doc.kids :
         /\ result.doc.kids[k].origin = "background"
         /\ ContentShapes(SubSeq(result.doc.kids, 1, k - 1)) = {}

\* C10: with a padding above 0, the guard rectangle of the copied document
\* comes after the background rectangle, if there is one, and before all
\* content of the icon, also for an icon that contains rect elements (stated
\* for the icons that are non-empty trees of shapes and groups).
C10_GuardBeforeContent ==
  (Copied /\ InPaddingRange(currentPadding)
     /\ ShapesAndGroups(SvgOf(source)) /\ SvgOf(source).kids # <<>>)
    => \E k \in DOMAIN result.doc.kids :
         /\ result.doc.kids[k].origin = "guard"
         /\ ContentRoots(SubSeq(result.doc.kids, 1, k - 1), 1) = <<>>
         /\ \A j \in DOMAIN result.doc.kids : result.doc.kids[j].origin = "background" => j < k

\* the elements of the copied document that the assembler made for the role
Made(origin) ==
  { el \in { DocumentOrder(result.doc)[i] : i \in DOMAIN DocumentOrder(result.doc) } :
      el.origin = origin }

\* min(width, height) * percent / 100 for the box the document's viewBox denotes
RadiusOfDocument(percent) ==
  LET box == BoxOf(result.doc.attrs["viewBox"])
  IN  FDiv(FMul(FMin(box.width, box.height), percent), FromInt(100))

HasRadius(el, radius) ==
  /\ hasAttribute(el, "rx") /\ el.attrs["rx"] = NumberText(radius)
  /\ hasAttribute(el, "ry") /\ el.attrs["ry"] = NumberText(radius)

Clicked == result # NoResult

HasSvgRoot(dom) == querySelector(dom, "svg") # <<>> \/ dom.tag = "svg"

\* C12: getSvgStringFromElement fails in one way only: it returns null iff
\* the element holds no svg root, and for every element with an svg root,
\* whatever the tree below it (the icon's own nested <defs> and rect elements
\* included) and whatever the style values, it returns a document and does
\* not throw.
C12_NullIsTheOnlyFailure ==
  Clicked => IF HasSvgRoot(live) THEN result.kind = "string" ELSE result.kind = "null"

\* the element's own stroke and fill attributes paint it in the colour: one
\* of them is the colour, and neither is anything but the colour or "none"
PaintedIn(el, color) ==
  /\ \E n \in {"stroke", "fill"} : hasAttribute(el, n) /\ el.attrs[n] = color
  /\ \A n \in {"stroke", "fill"} : hasAttribute(el, n) => el.attrs[n] \in {color, "none"}

\* C13: the copied document of an icon made of shapes and groups depends, under
\* every pack, neither on currentColor nor on inheritance: its root carries
\* no color, stroke, fill or stroke-width, no stroke or fill attribute in it
\* is currentColor, and every shape of the icon is painted by its own stroke
\* and fill attributes, set to the icon colour.
C13_NoInheritedPaint ==
  (Copied /\ ShapesAndGroups(SvgOf(source)))
    => /\ \A n \in {"color", "stroke", "fill", "stroke-width"} : ~hasAttribute(result.doc, n)
       /\ \A i \in DOMAIN DocumentOrder(result.doc) :
            \A n \in {"stroke", "fill"} :
              hasAttribute(DocumentOrder(result.doc)[i], n)
                => DocumentOrder(result.doc)[i].attrs[n] # "currentColor"
       /\ \A i \in DOMAIN IconContent(result.doc) :
            IconContent(result.doc)[i].tag \in ShapeTags
              => PaintedIn(IconContent(result.doc)[i], iconColor)

\* C14: the icon's tree is never mutated in place: root stripping, viewBox
\* expansion, colorization and the insertion of defs, background and guard
\* all work on a clone, so whatever has been colorized and copied, the tree
\* below iconRef has the attributes and children the icon component rendered.
C14_SourceNeverMutated == live = source

(***************************************************************************)
(* The copy of the last click: its clipboard writes and its promise.       *)
(***************************************************************************)
PlainText(attempt) == attempt.api \in {"writeText", "execCommand"}

LastOutcome == IF attempts = <<>> THEN "none" ELSE attempts[Len(attempts)].outcome

\* C15: copySvgToClipboard prefers the clipboard-item write: where it is
\* available it is the first write attempted, after it has succeeded there
\* is no plain-text write, and there is a plain-text write only where the
\* environment does not support the clipboard-item write.
C15_PrefersItemWrite ==
  (currentFormat # "png" /\ attempts # <<>>)
    => /\ CanWriteItems => attempts[1].api = "write"
       /\ \A i \in DOMAIN attempts :
            (attempts[i].api = "write" /\ attempts[i].outcome = "ok")
              => \A j \in DOMAIN attempts : ~PlainText(attempts[j])
       /\ (\E j \in DOMAIN attempts : PlainText(attempts[j]))
            => (~CanWriteItems \/ attempts[1].outcome = "unsupported")

\* C16: a copy never retries: once the environment has refused a clipboard
\* write, the copy has failed (its promise is rejected) and that write is the
\* last one the click attempts.
C16_NoWriteAfterRefusal ==
  \A i \in DOMAIN attempts :
    attempts[i].outcome = "denied"
      => /\ i = Len(attempts)
         /\ pc = "done"
         /\ copy.state = "rejected"

\* the kind of error a rejected copy reports
Kind(error) ==
  IF error = <<"Clipboard API not available">> THEN "ClipboardUnavailable"
  ELSE IF error \in {<<"Failed to copy to clipboard: ", DomException("denied")>>,
                     <<"Failed to copy PNG to clipboard. Your browser may not support copying image files.">>}
  THEN "ClipboardWriteRejected"
  ELSE "other"

Finished == pc = "done" /\ copy.state # "none"

\* C17 as claimed: in either format, a copy in an environment without
\* navigator.clipboard is rejected as ClipboardUnavailable, and a copy whose
\* write the environment refused is rejected as ClipboardWriteRejected.
C17_TwoErrorKinds ==
  Finished
    => /\ navigator.clipboard = "none"
            => (copy.state = "rejected" /\ Kind(copy.error) = "ClipboardUnavailable")
       /\ LastOutcome = "denied"
            => (copy.state = "rejected" /\ Kind(copy.error) = "ClipboardWriteRejected")

\* C18: copySvgAsPng writes nothing but an image/png clipboard item, and
\* where navigator.clipboard.write is missing it fails before it starts to
\* rasterize.
C18_PngWritesOnlyPng ==
  currentFormat = "png"
    => /\ \A i \in DOMAIN attempts :
            attempts[i].api = "write" /\ attempts[i].type = "image/png"
       /\ navigator.clipboard # "write"
            => /\ raster = <<>> /\ attempts = <<>>
               /\ copy.state \in {"none", "rejected"}

C18_Witness ==
  /\ currentFormat = "png" /\ copy = Resolved
  /\ attempts = <<Attempt("write", "image/png", "ok")>>
  /\ raster = <<"image", "drawImage", "blob">>

\* C19: when the rasterization fails (the image does not load, the canvas has
\* no 2d context, or toBlob yields no blob) the promise of copySvgAsPng is
\* rejected, nothing is written to the clipboard, and the copy is over: the
\* promise is not resolved afterwards.
C19_RasterFailureRejects ==
  (\E i \in DOMAIN raster : raster[i] \in {"error", "no context", "no blob"})
    => /\ copy.state = "rejected"
       /\ attempts = <<>>
       /\ pc = "done"

C19_Witness ==
  /\ raster = <<"image", "error">>
  /\ copy = Rejected(<<"Failed to load SVG image">>)

\* C20: the text the plain-text path of copySvgToClipboard writes starts with
\* exactly one XML declaration and its svg element declares xmlns, and
\* prepareSvgForClipboard leaves such a text as it is.
C20_PlainTextIsPrepared ==
  (\E i \in DOMAIN attempts : PlainText(attempts[i]))
    => /\ preparedSvg.prolog = <<XmlDeclaration>>
       /\ hasAttribute(preparedSvg.svg, "xmlns")
       /\ prepareSvgForClipboard(preparedSvg) = preparedSvg

(***************************************************************************)
(* The elements the assembler adds for the rounded corners.                *)
(***************************************************************************)
HasGeometry(el, x, y, width, height) ==
  /\ \A n \in {"x", "y", "width", "height"} : hasAttribute(el, n)
  /\ el.attrs["x"] = NumberText(x) /\ el.attrs["y"] = NumberText(y)
  /\ el.attrs["width"] = NumberText(width) /\ el.attrs["height"] = NumberText(height)

\* C23: the rectangle of the clip path lies 1 unit outside the expanded box
\* on every side (x and y less by 1, width and height more by 2) under pack
\* 'feather', and only there: under every other pack, and without a pack, it
\* is the expanded box itself.
C23_ClipRectBuffer ==
  (Copied /\ HasViewBox(result.doc) /\ FCmp(currentCornerRadius, FZero) > 0)
    => /\ Made("clipRect") # {}
       /\ \A clipRect \in Made("clipRect") :
            LET box == BoxOf(result.doc.attrs["viewBox"])
            IN  /\ packId = "feather"
                     => HasGeometry(clipRect, FSub(box.x, FromInt(1)), FSub(box.y, FromInt(1)),
                                    FAdd(box.width, FromInt(2)), FAdd(box.height, FromInt(2)))
                /\ packId # "feather"
                     => HasGeometry(clipRect, box.x, box.y, box.width, box.height)
                /\ HasGeometry(clipRect, box.x, box.y, box.width, box.height)
                     => packId # "feather"

C23_Witness ==
  /\ Copied /\ HasViewBox(result.doc) /\ packId = "feather"
  /\ currentCornerRadius = FromInt(50) /\ currentPadding = Hundredths(10)
  /\ \E clipRect \in Made("clipRect") :
       clipRect.attrs["x"] = NumberText(FSub(BoxOf(result.doc.attrs["viewBox"]).x, FromInt(1)))

PaintNames == {"stroke", "fill", "color"}

\* C24: colorization touches none of the elements the assembler adds: in the
\* copied document the background rectangle has fill backgroundColor and
\* stroke none, the guard rectangle has fill #ffffff, and neither the defs,
\* the clipPath and its rectangle nor the clip group carries the icon colour.
C24_AddedElementsKeepTheirPaint ==
  Copied
    => /\ \A bg \in Made("background") :
            /\ hasAttribute(bg, "fill") /\ bg.attrs["fill"] = backgroundColor
            /\ hasAttribute(bg, "stroke") /\ bg.attrs["stroke"] = "none"
       /\ \A guard \in Made("guard") :
            hasAttribute(guard, "fill") /\ guard.attrs["fill"] = "#ffffff"
       /\ \A el \in Made("defs") \cup Made("clipPath") \cup Made("clipRect") \cup Made("clipGroup") :
            \A n \in PaintNames : hasAttribute(el, n) => el.attrs[n] # iconColor

C24_Witness ==
  /\ Copied /\ packId = "feather" /\ backgroundColor # "transparent"
  /\ Made("background") # {} /\ Made("guard") # {}
  /\ Made("clipRect") # {} /\ Made("clipGroup") # {}
  /\ \E i \in DOMAIN IconContent(result.doc) :
       /\ hasAttribute(IconContent(result.doc)[i], "stroke")
       /\ IconContent(result.doc)[i].attrs["stroke"] = iconColor

\* an element without its attributes: its tag and its children's
RECURSIVE Skeleton(_)
Skeleton(el) == [tag |-> el.tag, kids |-> [i \in 1..Len(el.kids) |-> Skeleton(el.kids[i])]]

\* the children of the svg that are the icon's content: those that are no defs
Content(svg) == SelectSeq(svg.kids, LAMBDA el : el.tag # "defs")

ClipGroups ==
  { i \in DOMAIN DocumentOrder(result.doc) :
      /\ hasAttribute(DocumentOrder(result.doc)[i], "clip-path")
      /\ DocumentOrder(result.doc)[i].attrs["clip-path"] = "url(#rounded-corner-clip)" }

\* C25: with a corner radius above 0 the copied document has exactly one
\* group that refers to the clip path; it is the last child of the root, its
\* children are the content of the icon (the children of the icon's svg that
\* are no defs) in their order and nothing else, and the defs of the clip
\* path, the background rectangle and the guard rectangle are children of
\* the root that come before the group.
C25_ClipGroupHoldsTheContent ==
  (Copied /\ FCmp(currentCornerRadius, FZero) > 0)
    => /\ Cardinality(ClipGroups) = 1
       /\ result.doc.kids # <<>>
       /\ LET group == result.doc.kids[Len(result.doc.kids)]
          IN  /\ group.tag = "g" /\ group.origin = "clipGroup"
              /\ hasAttribute(group, "clip-path")
              /\ [i \in DOMAIN group.kids |-> Skeleton(group.kids[i])]
                   = [i \in DOMAIN Content(SvgOf(live)) |-> Skeleton(Content(SvgOf(live))[i])]
              /\ \A i \in DOMAIN group.kids : group.kids[i].origin = "icon"
       /\ result.doc.kids[1].origin = "defs"
       /\ \A el \in Made("background") \cup Made("guard") :
            \E k \in 1..(Len(result.doc.kids) - 1) : result.doc.kids[k] = el
       /\ backgroundColor # "transparent" => Made("background") # {}
       /\ InPaddingRange(currentPadding) => Made("guard") # {}

C25_Witness ==
  /\ Copied /\ currentCornerRadius = FromInt(50)
  /\ backgroundColor # "transparent" /\ InPaddingRange(currentPadding)
  /\ Len(result.doc.kids) = 4
  /\ Len(result.doc.kids[4].kids) = 2
  /\ result.doc.kids[4].kids[1].tag = "g"

OutOfRange(padding) == FCmp(padding, FZero) < 0 \/ FCmp(padding, Hundredths(50)) > 0

WithPadding(padding) ==
  getSvgStringFromElement(live, iconColor, backgroundColor, copySize, padding,
                          currentCornerRadius, packId)

\* C27: getSvgStringFromElement neither rejects nor clamps a padding below 0
\* or above 0.5: it returns what it returns for padding 0, a document with
\* the icon's viewBox (the default one if the icon has none) and without a
\* guard rectangle, and not the document of padding 0.5.
C27_OutOfRangePaddingIsNoPadding ==
  (Clicked /\ OutOfRange(currentPadding))
    => /\ result = WithPadding(FZero)
       /\ result.kind = "null" <=> ~HasSvgRoot(live)
       /\ Copied
            => /\ result.doc.attrs["viewBox"] = WithViewBox(SvgOf(live)).attrs["viewBox"]
               /\ GuardCount(result.doc) = 0
               /\ result # WithPadding(Hundredths(50))

C27_Witness ==
  /\ Copied /\ currentPadding = Hundredths(60)
  /\ HasViewBox(SvgOf(source))
  /\ result.doc.attrs["viewBox"] = SvgOf(source).attrs["viewBox"]
  /\ GuardCount(result.doc) = 0
  /\ WithPadding(Hundredths(50)).kind = "string"
  /\ GuardCount(WithPadding(Hundredths(50)).doc) = 1

(***************************************************************************)
(* The end of a click: its toasts, the object URL of its rasterization and *)
(* the highlight of the tile.                                              *)
(***************************************************************************)
Written == \E i \in DOMAIN attempts : attempts[i].outcome \in {"ok", "true"}

Failed ==
  \/ copy.state = "rejected"
  \/ LastOutcome \in {"denied", "unsupported", "false", "throws"}
  \/ \E i \in DOMAIN raster : raster[i] \in {"error", "no context", "no blob", "threw"}

Ended == Clicked /\ result.kind # "null" /\ pc \in {"idle", "done"}

\* C21: no failure escapes a click. When getSvgStringFromElement returns null
\* no clipboard write is attempted; otherwise the click ends with exactly one
\* toast, which is the success toast only if the content was written to the
\* clipboard, and an error toast whenever the rasterization or the clipboard
\* write has failed.
C21_OneToastPerClick ==
  /\ (Clicked /\ result.kind = "null") => (attempts = <<>> /\ toasts = <<>>)
  /\ Ended
       => /\ Len(toasts) = 1
          /\ toasts[1].kind = "success" => Written
          /\ Failed => toasts[1].kind = "error"

CountOf(seq, values) == Cardinality({ i \in DOMAIN seq : seq[i] \in values })

\* C28: in copySvgAsPng the object URL is revoked at most once and the
\* promise is settled at most once, and when the copy is over, whichever
\* way it went after the load or error event, the URL has been revoked
\* exactly once and the promise settled exactly once, as it then is.
C28_RevokedAndSettledOnce ==
  CountOf(calls, {"createObjectURL"}) = 1
    => /\ CountOf(calls, {"revokeObjectURL"}) <= 1
       /\ CountOf(calls, {"resolve", "reject"}) <= 1
       /\ pc = "done"
            => /\ Len(raster) >= 2
               /\ CountOf(calls, {"revokeObjectURL"}) = 1
               /\ CountOf(calls, {"resolve", "reject"}) = 1
               /\ CountOf(calls, {"resolve"}) = 1 <=> copy.state = "resolved"
               /\ CountOf(calls, {"reject"}) = 1 <=> copy.state = "rejected"

C28_Witness ==
  /\ pc = "done"
  /\ raster = <<"image", "drawImage", "no blob">>
  /\ calls = <<"createObjectURL", "revokeObjectURL", "reject">>

\* C29: when no setTimeout callback of the success highlight is pending, the
\* background of the tile is what it was before the first click, however
\* many successful clicks there were and however close together.
C29_HighlightRemoved == timeouts = <<>> => style = ""

\* lo <= a <= hi
Between(a, lo, hi) == FCmp(a, lo) >= 0 /\ FCmp(a, hi) <= 0

\* C26: in every state the browser can be brought to (mounted with any saved
\* settings, the slider moved, numbers typed into the inputs, presets
\* clicked), the padding a click of the tile passes on lies in [0, 0.5] and
\* the corner radius in [0, 50].
C26_SettingsInRange ==
  /\ Between(currentPadding, FZero, Hundredths(50))
  /\ Between(currentCornerRadius, FZero, FromInt(50))
  /\ currentPadding = browser.iconPadding
  /\ currentCornerRadius = browser.cornerRadius

\* a click with the largest padding and the largest corner radius, after a
\* visit that left a padding of 0.7 behind
C26_Witness ==
  /\ Copied
  /\ currentPadding = Hundredths(50)
  /\ currentCornerRadius = FromInt(50)
  /\ localStorage.iconCornerRadius = SettingStrings[FromInt(50)]

\* C30: the colours of a copied document are the colours the user selected,
\* those kept in localStorage as iconColor and iconBackgroundColor, whatever
\* the colour scheme: every stroke and fill of the icon is the selected icon
\* colour, and the document has a background rectangle, filled with the
\* selected background colour, exactly when that is not transparent.
C30_CopiedColoursAreSelected ==
  (Copied /\ browser # NoBrowser)
    => /\ \A i \in DOMAIN IconContent(result.doc) :
            \A n \in {"stroke", "fill"} :
              hasAttribute(IconContent(result.doc)[i], n)
                => IconContent(result.doc)[i].attrs[n] \in {localStorage.iconColor, "none"}
       /\ \A bg \in Made("background") : bg.attrs["fill"] = localStorage.iconBackgroundColor
       /\ (Made("background") # {}) = (localStorage.iconBackgroundColor # "transparent")


\* what a click of the tile returns when no other tile is there
Alone(tile) ==
  getSvgStringFromElement(tile.live, iconColor, backgroundColor, copySize,
                          currentPadding, currentCornerRadius, packId)

\* the tile's copy under way, or its last one, hands over what the tile
\* produces alone: its document to the clipboard writes of the svg copy, its
\* document and size to the image of the png copy
HandsOverItsOwn(tile) ==
  \E alone \in {Alone(tile)} :
    /\ tile.attempts # <<>> /\ currentFormat = "text"
         => tile.preparedSvg = prepareSvgForClipboard(outerHTML(alone.doc))
    /\ tile.raster # <<>>
         => tile.img = Image(outerHTML(alone.doc), copySize)
    /\ tile.result \in {NoResult, alone}

\* C22: with two tiles whose copies overlap in any way, the document and the
\* image each copy hands to the clipboard are those of its own icon and of the
\* style: what the tile produces when it is clicked alone.
C22_CopiesDoNotInterfere ==
  other # NoTile => HandsOverItsOwn(ThisTile) /\ HandsOverItsOwn(other)

Waiting == {"write", "writeText", "load", "toBlob", "writePng"}

\* both tiles have a copy under way, of documents that differ
C22_Witness ==
  /\ other # NoTile
  /\ pc \in Waiting
  /\ other.pc \in Waiting
  /\ result.kind = "string"
  /\ other.result.kind = "string"
  /\ result # other.result

====
